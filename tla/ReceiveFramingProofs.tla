------------------------- MODULE ReceiveFramingProofs -------------------------
(* Theorems about ReceiveFraming for any requests, any way the stream is cut    *)
(* into pieces, and any limits that satisfy ConstantsAssumption.                *)
EXTENDS ReceiveFraming, SequenceTheorems, TLAPS

\* the bytes of a list of requests
BytesOf(s) == (1..Len(s)) \X (Nat \ {0})

\* Value, Function and DataLength, given the requests sent
ValueIn(s, b) ==
    LET r == s[b[1]] IN
    IF b[2] = HeaderLength + 1 THEN r.fn
    ELSE IF r.fn \in Counted /\ b[2] = CountPlace(r.fn) THEN r.count
    ELSE 0

FunctionIn(s, m) == ValueIn(s, m[HeaderLength + 1])

DataIn(s, m) ==
    IF FunctionIn(s, m) \in Counted
    THEN ValueIn(s, m[CountPlace(FunctionIn(s, m))]) ELSE 0

\* the lengths up to the end of the fixed part and of the message
MetaEnd(s, m) == HeaderLength + 1 + MetaLength(FunctionIn(s, m))

Computed(s, m) == MetaEnd(s, m) + DataIn(s, m)

\* bytes come from requests that were sent
FromSent ==
    /\ msg \in Seq(BytesOf(sent)) /\ stream \in Seq(BytesOf(sent))
    /\ inflight \in Seq(BytesOf(sent))

\* in each step, what was read and what is still to read make up the length
\* worked out from the bytes already read
Reading(s, p, st, l, m) ==
    /\ p = "receive" /\ st = "function" => 0 < l /\ Len(m) + l = HeaderLength + 1
    /\ p = "receive" /\ st = "meta" =>
         0 < l /\ HeaderLength + 1 <= Len(m) /\ Len(m) + l = MetaEnd(s, m)
    /\ p = "receive" /\ st = "data" =>
         /\ 0 < l /\ HeaderLength + 1 <= Len(m) /\ MetaEnd(s, m) <= Len(m)
         /\ Len(m) + l = Computed(s, m) /\ Len(m) + l <= MaxAdu
    /\ p # "receive" =>
         /\ l = 0 /\ HeaderLength + 1 <= Len(m) /\ MetaEnd(s, m) <= Len(m)
         /\ Len(m) = Computed(s, m) /\ Len(m) <= MaxAdu

ReadingInv == Reading(sent, pc, step, toRead, msg)

IInv == TypeOK /\ FromSent /\ ReadingInv

-----------------------------------------------------------------------------
(* Values and lengths.                                                          *)

LEMMA Numbers ==
    /\ HeaderLength \in Nat /\ MaxAdu \in Nat /\ SumMax \in Nat
    /\ HeaderLength + 12 <= MaxAdu /\ MaxAdu <= SumMax
  BY ConstantsAssumption

LEMMA MetaLengthType ==
    ASSUME NEW fn \in Nat
    PROVE  MetaLength(fn) \in Nat /\ MetaLength(fn) <= 9
  BY DEF MetaLength, WritesMany, MODBUS_FC_WRITE_SINGLE_REGISTER,
         MODBUS_FC_WRITE_MULTIPLE_COILS, MODBUS_FC_WRITE_MULTIPLE_REGISTERS,
         MODBUS_FC_MASK_WRITE_REGISTER, MODBUS_FC_WRITE_AND_READ_REGISTERS

\* the byte count is inside the fixed part
LEMMA CountInside ==
    ASSUME NEW fn \in Counted
    PROVE  /\ CountPlace(fn) \in Nat /\ HeaderLength + 1 < CountPlace(fn)
           /\ CountPlace(fn) = HeaderLength + 1 + MetaLength(fn)
  BY Numbers
     DEF Counted, CountPlace, MetaLength, WritesMany, MODBUS_FC_WRITE_SINGLE_REGISTER,
         MODBUS_FC_WRITE_MULTIPLE_COILS, MODBUS_FC_WRITE_MULTIPLE_REGISTERS,
         MODBUS_FC_MASK_WRITE_REGISTER, MODBUS_FC_WRITE_AND_READ_REGISTERS

LEMMA RequestType ==
    ASSUME NEW r \in Requests
    PROVE  r.fn \in Nat /\ r.count \in Nat /\ r.size \in Nat /\ r.verdict \in Verdicts
  BY ConstantsAssumption

LEMMA ValueType ==
    ASSUME NEW s \in Seq(Requests), NEW b \in BytesOf(s)
    PROVE  ValueIn(s, b) \in Nat
  <1>1. s[b[1]] \in Requests
    BY DEF BytesOf
  <1>2. s[b[1]].fn \in Nat /\ s[b[1]].count \in Nat
    BY <1>1, RequestType
  <1>3. QED  BY <1>2 DEF ValueIn

LEMMA FunctionType ==
    ASSUME NEW s \in Seq(Requests), NEW m \in Seq(BytesOf(s)),
           HeaderLength + 1 <= Len(m)
    PROVE  /\ FunctionIn(s, m) \in Nat
           /\ MetaEnd(s, m) \in Nat /\ MetaEnd(s, m) <= MaxAdu
           /\ HeaderLength + 1 <= MetaEnd(s, m)
           /\ MetaEnd(s, m) = HeaderLength + 1 + MetaLength(FunctionIn(s, m))
  <1>1. m[HeaderLength + 1] \in BytesOf(s)
    BY Numbers, LenProperties, ElementOfSeq
  <1>2. FunctionIn(s, m) \in Nat
    BY <1>1, ValueType DEF FunctionIn
  <1>3. MetaLength(FunctionIn(s, m)) \in Nat /\ MetaLength(FunctionIn(s, m)) <= 9
    BY <1>2, MetaLengthType
  <1>4. QED  BY <1>2, <1>3, Numbers DEF MetaEnd

LEMMA DataType ==
    ASSUME NEW s \in Seq(Requests), NEW m \in Seq(BytesOf(s)),
           HeaderLength + 1 <= Len(m), MetaEnd(s, m) <= Len(m)
    PROVE  DataIn(s, m) \in Nat /\ Computed(s, m) \in Nat
  <1>1. CASE FunctionIn(s, m) \in Counted
    <2>1. CountPlace(FunctionIn(s, m)) \in 1..Len(m)
      BY <1>1, CountInside, FunctionType, LenProperties, Numbers DEF MetaEnd
    <2>2. m[CountPlace(FunctionIn(s, m))] \in BytesOf(s)
      BY <2>1, ElementOfSeq
    <2>3. DataIn(s, m) \in Nat
      BY <1>1, <2>2, ValueType DEF DataIn
    <2>4. QED  BY <2>3, FunctionType DEF Computed
  <1>2. CASE FunctionIn(s, m) \notin Counted
    BY <1>2, FunctionType DEF DataIn, Computed
  <1>3. QED  BY <1>1, <1>2

\* what follows does not change the values read so far
LEMMA Extended ==
    ASSUME NEW s \in Seq(Requests), NEW m \in Seq(BytesOf(s)),
           NEW n \in Seq(BytesOf(s)), Len(m) <= Len(n),
           \A i \in 1..Len(m) : n[i] = m[i], HeaderLength + 1 <= Len(m)
    PROVE  /\ FunctionIn(s, n) = FunctionIn(s, m) /\ MetaEnd(s, n) = MetaEnd(s, m)
           /\ MetaEnd(s, m) <= Len(m) =>
                DataIn(s, n) = DataIn(s, m) /\ Computed(s, n) = Computed(s, m)
  <1>1. n[HeaderLength + 1] = m[HeaderLength + 1]
    BY Numbers, LenProperties
  <1>2. FunctionIn(s, n) = FunctionIn(s, m)
    BY <1>1 DEF FunctionIn
  <1>3. MetaEnd(s, n) = MetaEnd(s, m)
    BY <1>2 DEF MetaEnd
  <1>4. ASSUME MetaEnd(s, m) <= Len(m) PROVE DataIn(s, n) = DataIn(s, m)
    <2>1. CASE FunctionIn(s, m) \in Counted
      <3>1. CountPlace(FunctionIn(s, m)) \in 1..Len(m)
        BY <2>1, <1>4, CountInside, FunctionType, LenProperties, Numbers DEF MetaEnd
      <3>2. n[CountPlace(FunctionIn(s, m))] = m[CountPlace(FunctionIn(s, m))]
        BY <3>1
      <3>3. QED  BY <1>2, <3>2 DEF DataIn
    <2>2. CASE FunctionIn(s, m) \notin Counted
      BY <2>2, <1>2 DEF DataIn
    <2>3. QED  BY <2>1, <2>2
  <1>5. QED  BY <1>2, <1>3, <1>4 DEF Computed

\* nor do later requests
LEMMA SentMore ==
    ASSUME NEW s \in Seq(Requests), NEW r \in Requests, NEW b \in BytesOf(s)
    PROVE  /\ BytesOf(s) \subseteq BytesOf(Append(s, r))
           /\ ValueIn(Append(s, r), b) = ValueIn(s, b)
  <1>1. /\ Len(Append(s, r)) = Len(s) + 1 /\ Len(s) \in Nat
        /\ \A i \in 1..Len(s) : Append(s, r)[i] = s[i]
    BY AppendProperties, LenProperties
  <1>2. b[1] \in 1..Len(s)
    BY DEF BytesOf
  <1>3. Append(s, r)[b[1]] = s[b[1]]
    BY <1>1, <1>2
  <1>4. ValueIn(Append(s, r), b) = ValueIn(s, b)
    BY <1>3 DEF ValueIn
  <1>5. QED  BY <1>1, <1>4 DEF BytesOf

LEMMA ReadingMore ==
    ASSUME NEW s \in Seq(Requests), NEW r \in Requests, NEW m \in Seq(BytesOf(s)),
           NEW p, NEW st, NEW l \in Nat, Reading(s, p, st, l, m),
           p # "receive" \/ st \in {"function", "meta", "data"}
    PROVE  Reading(Append(s, r), p, st, l, m)
  <1>1. ASSUME HeaderLength + 1 <= Len(m)
        PROVE  FunctionIn(Append(s, r), m) = FunctionIn(s, m)
    <2>1. m[HeaderLength + 1] \in BytesOf(s)
      BY <1>1, Numbers, LenProperties, ElementOfSeq
    <2>2. QED  BY <2>1, SentMore DEF FunctionIn
  <1>2. ASSUME HeaderLength + 1 <= Len(m)
        PROVE  MetaEnd(Append(s, r), m) = MetaEnd(s, m)
    BY <1>1, <1>2 DEF MetaEnd
  <1>3. ASSUME HeaderLength + 1 <= Len(m), MetaEnd(s, m) <= Len(m)
        PROVE  DataIn(Append(s, r), m) = DataIn(s, m)
    <2>1. CASE FunctionIn(s, m) \in Counted
      <3>1. CountPlace(FunctionIn(s, m)) \in 1..Len(m)
        BY <2>1, <1>3, CountInside, FunctionType, LenProperties, Numbers DEF MetaEnd
      <3>2. m[CountPlace(FunctionIn(s, m))] \in BytesOf(s)
        BY <3>1, ElementOfSeq
      <3>3. QED  BY <1>1, <1>3, <3>2, SentMore DEF DataIn
    <2>2. CASE FunctionIn(s, m) \notin Counted
      BY <2>2, <1>1, <1>3 DEF DataIn
    <2>3. QED  BY <2>1, <2>2
  <1>4. ASSUME HeaderLength + 1 <= Len(m), MetaEnd(s, m) <= Len(m)
        PROVE  Computed(Append(s, r), m) = Computed(s, m)
    BY <1>2, <1>3, <1>4 DEF Computed
  <1>5. QED  BY <1>2, <1>4 DEF Reading

-----------------------------------------------------------------------------
(* The steps of the receiver.                                                   *)

LEMMA SameValues ==
    ASSUME NEW m
    PROVE  /\ Function(m) = FunctionIn(sent, m)
           /\ DataLength(m) = DataIn(sent, m)
  BY DEF Function, DataLength, FunctionIn, DataIn, Value, ValueIn

LEMMA Restarted ==
    ASSUME NEW s, Receiving
    PROVE  /\ Reading(s, pc', step', toRead', msg')
           /\ pc' = "receive" /\ step' = "function" /\ msg' = <<>> /\ toRead' \in Nat
           /\ msg' \in Seq(BytesOf(s)) /\ msg' \in Seq(Places)
  BY Numbers, EmptySeq DEF Receiving, Reading

LEMMA GotType ==
    ASSUME IInv, pc = "receive"
    PROVE  /\ Taken \in Nat /\ Taken <= toRead /\ Taken <= Len(stream) /\ 0 < toRead
           /\ stream # <<>> => 0 < Taken
           /\ Got \in Seq(BytesOf(sent)) /\ Len(Got) = Len(msg) + Taken
           /\ \A i \in 1..Len(msg) : Got[i] = msg[i]
           /\ \A i \in 1..Taken : Got[Len(msg) + i] = stream[i]
  <1>1. /\ msg \in Seq(BytesOf(sent)) /\ stream \in Seq(BytesOf(sent))
        /\ Len(msg) \in Nat /\ Len(stream) \in Nat
    BY LenProperties DEF IInv, FromSent
  <1>2. toRead \in Nat /\ 0 < toRead
    BY DEF IInv, TypeOK, ReadingInv, Reading
  <1>3. /\ Taken \in Nat /\ Taken <= toRead /\ Taken <= Len(stream)
        /\ stream # <<>> => 0 < Taken
    BY <1>1, <1>2, EmptySeq DEF Taken
  <1>4. \A i \in 1..Taken : stream[i] \in BytesOf(sent)
    BY <1>1, <1>3, ElementOfSeq
  <1>5. /\ SubSeq(stream, 1, Taken) \in Seq(BytesOf(sent))
        /\ Len(SubSeq(stream, 1, Taken)) = Taken
        /\ \A i \in 1..Taken : SubSeq(stream, 1, Taken)[i] = stream[i]
    BY <1>3, <1>4, SubSeqProperties
  <1>6. QED  BY <1>1, <1>2, <1>3, <1>5, ConcatProperties DEF Got

LEMMA RestType ==
    ASSUME NEW S, NEW q \in Seq(S), NEW n \in Nat
    PROVE  SubSeq(q, n + 1, Len(q)) \in Seq(S)
  <1>1. Len(q) \in Nat /\ \A i \in (n + 1)..Len(q) : q[i] \in S
    BY LenProperties, ElementOfSeq
  <1>2. QED  BY <1>1, SubSeqProperties

\* the fixed part ends where the bytes read end
LEMMA AtMetaEnd ==
    ASSUME IInv, pc = "receive", Taken = toRead, MetaRead(Got)
    PROVE  /\ Len(Got) = MetaEnd(sent, Got) /\ HeaderLength + 1 <= Len(Got)
           /\ DataLength(Got) \in Nat
           /\ Computed(sent, Got) = Len(Got) + DataLength(Got)
  <1>1. sent \in Seq(Requests) /\ msg \in Seq(BytesOf(sent)) /\ Len(msg) \in Nat
    BY LenProperties DEF IInv, TypeOK, FromSent
  <1>2. Len(Got) = MetaEnd(sent, Got) /\ HeaderLength + 1 <= Len(Got)
    <2>1. CASE step = "meta"
      <3>1. HeaderLength + 1 <= Len(msg) /\ Len(msg) + toRead = MetaEnd(sent, msg)
        BY <2>1 DEF IInv, ReadingInv, Reading
      <3>2. MetaEnd(sent, Got) = MetaEnd(sent, msg)
        BY <1>1, <3>1, GotType, Extended
      <3>3. QED  BY <1>1, <3>1, <3>2, GotType, Numbers
    <2>2. CASE step = "function" /\ MetaLength(Function(Got)) = 0
      <3>1. Len(Got) = HeaderLength + 1
        BY <1>1, <2>2, GotType DEF IInv, ReadingInv, Reading
      <3>2. QED  BY <2>2, <3>1, SameValues, Numbers DEF MetaEnd
    <2>3. QED  BY <2>1, <2>2 DEF MetaRead
  <1>3. DataIn(sent, Got) \in Nat
    BY <1>1, <1>2, GotType, DataType
  <1>4. QED  BY <1>2, <1>3, SameValues DEF Computed

LEMMA ReadReading ==
    ASSUME IInv, Read
    PROVE  /\ Reading(sent, pc', step', toRead', msg')
           /\ toRead' \in Nat /\ msg' = Got /\ inflight' = inflight
           /\ pc' \in {"receive", "reply"} /\ step' \in {"function", "meta", "data"}
  <1>1. /\ sent \in Seq(Requests) /\ msg \in Seq(BytesOf(sent)) /\ Len(msg) \in Nat
        /\ pc = "receive" /\ stream # <<>> /\ toRead \in Nat
        /\ step \in {"function", "meta", "data"}
    BY LenProperties DEF IInv, TypeOK, FromSent, Read
  <1>0. /\ Got \in Seq(BytesOf(sent)) /\ Len(msg) <= Len(Got)
        /\ \A i \in 1..Len(msg) : Got[i] = msg[i]
    BY <1>1, GotType
  <1>2. ASSUME HeaderLength + 1 <= Len(msg)
        PROVE  MetaEnd(sent, Got) = MetaEnd(sent, msg)
    BY <1>0, <1>1, <1>2, Extended
  <1>3. ASSUME HeaderLength + 1 <= Len(msg), MetaEnd(sent, msg) <= Len(msg)
        PROVE  Computed(sent, Got) = Computed(sent, msg)
    BY <1>0, <1>1, <1>3, Extended
  <1>4. CASE Taken # toRead
    <2>1. msg' = Got /\ toRead' = toRead - Taken /\ pc' = pc /\ step' = step
          /\ inflight' = inflight
      BY <1>4 DEF Read
    <2>2. toRead' \in Nat /\ 0 < toRead' /\ Len(Got) + toRead' = Len(msg) + toRead
          /\ Len(msg) <= Len(Got) /\ Len(Got) \in Nat
      BY <1>1, <1>4, <2>1, GotType
    <2>3. step = "function" => Len(Got) + toRead' = HeaderLength + 1
      BY <1>1, <2>2 DEF IInv, ReadingInv, Reading
    <2>4. step = "meta" => HeaderLength + 1 <= Len(Got)
                           /\ Len(Got) + toRead' = MetaEnd(sent, Got)
      BY <1>1, <1>2, <2>2, Numbers DEF IInv, ReadingInv, Reading
    <2>5. step = "data" =>
            /\ HeaderLength + 1 <= Len(msg) /\ MetaEnd(sent, msg) <= Len(msg)
            /\ Len(msg) + toRead = Computed(sent, msg) /\ Len(msg) + toRead <= MaxAdu
      BY <1>1 DEF IInv, ReadingInv, Reading
    <2>6. step = "data" =>
            /\ HeaderLength + 1 <= Len(Got) /\ MetaEnd(sent, Got) <= Len(Got)
            /\ Len(Got) + toRead' = Computed(sent, Got) /\ Len(Got) + toRead' <= MaxAdu
      BY <1>1, <1>2, <1>3, <2>2, <2>5, Numbers, FunctionType
    <2>7. QED  BY <1>1, <2>1, <2>2, <2>3, <2>4, <2>6 DEF Reading
  <1>5. CASE Taken = toRead /\ AfterFunction(Got)
    <2>1. /\ step = "function" /\ step' = "meta" /\ pc' = "receive" /\ msg' = Got
          /\ toRead' = MetaLength(FunctionIn(sent, Got)) /\ toRead' # 0
          /\ inflight' = inflight
      BY <1>1, <1>5, SameValues DEF AfterFunction
    <2>2. Len(Got) = HeaderLength + 1
      BY <1>1, <1>5, <2>1, GotType DEF IInv, ReadingInv, Reading
    <2>5. FunctionIn(sent, Got) \in Nat
      BY <1>0, <1>1, <2>2, Numbers, FunctionType
    <2>3. toRead' \in Nat
      BY <2>1, <2>5, MetaLengthType
    <2>4. QED  BY <2>1, <2>2, <2>3, Numbers DEF Reading, MetaEnd
  <1>6. CASE Taken = toRead /\ AfterMeta(Got)
    <2>1. /\ step' = "data" /\ toRead' = DataLength(Got) /\ msg' = Got
          /\ pc' = IF DataLength(Got) = 0 THEN "reply" ELSE "receive"
          /\ inflight' = inflight
          /\ Len(Got) + DataLength(Got) <= MaxAdu
      BY <1>6 DEF AfterMeta, Fits
    <2>2. /\ Len(Got) = MetaEnd(sent, Got) /\ HeaderLength + 1 <= Len(Got)
          /\ DataLength(Got) \in Nat
          /\ Computed(sent, Got) = Len(Got) + DataLength(Got)
      BY <1>1, <1>6, AtMetaEnd DEF AfterMeta
    <2>3. Len(Got) \in Nat
      BY <1>1, GotType
    <2>4. CASE DataLength(Got) = 0
      BY <2>1, <2>2, <2>3, <2>4 DEF Reading
    <2>5. CASE DataLength(Got) # 0
      BY <2>1, <2>2, <2>3, <2>5 DEF Reading
    <2>6. QED  BY <2>4, <2>5
  <1>7. CASE Taken = toRead /\ AfterData(Got)
    <2>1. /\ step = "data" /\ step' = "data" /\ pc' = "reply" /\ toRead' = 0
          /\ msg' = Got /\ inflight' = inflight
      BY <1>7 DEF AfterData
    <2>2. /\ HeaderLength + 1 <= Len(msg) /\ MetaEnd(sent, msg) <= Len(msg)
          /\ Len(msg) + toRead = Computed(sent, msg) /\ Len(msg) + toRead <= MaxAdu
      BY <1>1, <2>1 DEF IInv, ReadingInv, Reading
    <2>3. Len(Got) = Len(msg) + toRead
      BY <1>1, <1>7, GotType
    <2>4. HeaderLength + 1 <= Len(Got) /\ MetaEnd(sent, msg) <= Len(Got)
      BY <1>1, <2>2, <2>3, Numbers, FunctionType
    <2>5. QED  BY <1>2, <1>3, <2>1, <2>2, <2>3, <2>4 DEF Reading
  <1>8. QED  BY <1>4, <1>5, <1>6, <1>7 DEF Read

-----------------------------------------------------------------------------
(* The inductive invariant of types and lengths.                                *)

LEMMA Placed ==
    ASSUME NEW s \in Seq(Requests)
    PROVE  BytesOf(s) \subseteq Places /\ Seq(BytesOf(s)) \subseteq Seq(Places)
  <1>1. BytesOf(s) \subseteq Places
    BY LenProperties DEF BytesOf, Places
  <1>2. QED  BY <1>1, SeqMonotonic

\* the part of TypeOK that is not about the bytes
Others ==
    /\ patient \in BOOLEAN /\ sent \in Seq(Requests)
    /\ pc \in {"receive", "reply", "sleep", "flush"}
    /\ step \in {"function", "meta", "data"}
    /\ toRead \in Nat /\ sum \in 0..SumMax
    /\ recovery \in {"none", "protocol"} /\ answered \in Nat

LEMMA Assembled ==
    ASSUME Others, FromSent PROVE TypeOK
  BY Placed, Zenon DEF Others, FromSent, TypeOK

LEMMA InitIInv == Init => IInv
  <1> SUFFICES ASSUME Init PROVE IInv
    OBVIOUS
  <1>1. Others
    BY Numbers, EmptySeq DEF Init, Others
  <1>2. FromSent
    BY EmptySeq DEF Init, FromSent
  <1>3. ReadingInv
    BY Numbers, EmptySeq DEF Init, ReadingInv, Reading
  <1>4. QED  BY <1>1, <1>2, <1>3, Assembled DEF IInv

LEMMA BytesType ==
    ASSUME NEW s \in Seq(Requests), NEW r \in Requests
    PROVE  /\ Bytes(Len(s) + 1, r) \in Seq(BytesOf(Append(s, r)))
           /\ Len(Bytes(Len(s) + 1, r)) = SentLength(r)
           /\ SentLength(r) \in Nat /\ SentLength(r) <= MaxAdu
           /\ \A i \in 1..SentLength(r) : Bytes(Len(s) + 1, r)[i] = <<Len(s) + 1, i>>
  <1>1. SentLength(r) \in Nat /\ SentLength(r) <= MaxAdu
    BY ConstantsAssumption, RequestType DEF SentLength
  <1>2. Len(Append(s, r)) = Len(s) + 1 /\ Len(s) \in Nat
    BY AppendProperties, LenProperties
  <1>3. \A i \in 1..SentLength(r) : <<Len(s) + 1, i>> \in BytesOf(Append(s, r))
    BY <1>1, <1>2 DEF BytesOf
  <1> DEFINE q == Bytes(Len(s) + 1, r)
  <1>4. /\ q \in [1..SentLength(r) -> BytesOf(Append(s, r))]
        /\ \A i \in 1..SentLength(r) : q[i] = <<Len(s) + 1, i>>
    BY <1>3 DEF Bytes
  <1> HIDE DEF q
  <1>5. q \in Seq(BytesOf(Append(s, r))) /\ Len(q) = SentLength(r)
    BY <1>1, <1>4
  <1>6. QED  BY <1>1, <1>4, <1>5 DEF q

LEMMA SendRequestStep ==
    ASSUME IInv, NEW r \in Requests, SendRequest(r) PROVE IInv'
  <1>1. /\ sent \in Seq(Requests) /\ sent' = Append(sent, r)
        /\ inflight' = inflight \o Bytes(Len(sent) + 1, r)
        /\ UNCHANGED <<patient, stream, pc, step, toRead, msg, sum, recovery, answered>>
    BY DEF IInv, TypeOK, SendRequest
  <1>2. sent' \in Seq(Requests) /\ Seq(BytesOf(sent)) \subseteq Seq(BytesOf(sent'))
    BY <1>1, SentMore, AppendProperties, SeqMonotonic
  <1>3. FromSent'
    BY <1>1, <1>2, BytesType, ConcatProperties DEF IInv, FromSent
  <1>4. Others'
    BY <1>1, <1>2 DEF IInv, TypeOK, Others
  <1>5. ReadingInv'
    BY <1>1, ReadingMore DEF IInv, TypeOK, FromSent, ReadingInv
  <1>6. TypeOK'
    BY <1>3, <1>4, Placed DEF Others, FromSent, TypeOK
  <1>7. QED  BY <1>3, <1>5, <1>6 DEF IInv

LEMMA DeliverStep ==
    ASSUME IInv, Deliver PROVE IInv'
  <1>1. PICK n \in 1..Len(inflight) :
          /\ stream' = stream \o SubSeq(inflight, 1, n)
          /\ inflight' = SubSeq(inflight, n + 1, Len(inflight))
    BY DEF Deliver
  <1>2. /\ inflight \in Seq(BytesOf(sent)) /\ Len(inflight) \in Nat
        /\ stream \in Seq(BytesOf(sent))
    BY LenProperties DEF IInv, FromSent
  <1>3. \A i \in 1..n : inflight[i] \in BytesOf(sent)
    BY <1>1, <1>2, ElementOfSeq
  <1>4. SubSeq(inflight, 1, n) \in Seq(BytesOf(sent))
    BY <1>2, <1>3, SubSeqProperties
  <1>5. stream' \in Seq(BytesOf(sent)) /\ inflight' \in Seq(BytesOf(sent))
    BY <1>1, <1>2, <1>4, RestType, ConcatProperties
  <1>6. UNCHANGED <<patient, sent, pc, step, toRead, msg, sum, recovery, answered>>
    BY DEF Deliver
  <1>7. FromSent'
    BY <1>5, <1>6 DEF IInv, FromSent
  <1>8. Others'
    BY <1>6 DEF IInv, TypeOK, Others
  <1>9. TypeOK'
    BY <1>7, <1>8, Placed DEF Others, FromSent, TypeOK
  <1>10. QED  BY <1>6, <1>7, <1>9 DEF IInv, ReadingInv

LEMMA ReadStep ==
    ASSUME IInv, Read PROVE IInv'
  <1>1. /\ stream' = SubSeq(stream, Taken + 1, Len(stream))
        /\ UNCHANGED <<patient, sent, sum, recovery, answered>> /\ pc = "receive"
    BY DEF Read
  <1>2. stream' \in Seq(BytesOf(sent)) /\ Got \in Seq(BytesOf(sent))
    BY <1>1, GotType, RestType DEF IInv, FromSent
  <1>3. FromSent'
    BY <1>1, <1>2, ReadReading DEF IInv, FromSent
  <1>4. Others'
    BY <1>1, ReadReading DEF IInv, TypeOK, Others
  <1>5. TypeOK'
    BY <1>3, <1>4, Placed DEF Others, FromSent, TypeOK
  <1>6. QED  BY <1>1, <1>3, <1>5, ReadReading DEF IInv, ReadingInv

\* steps after which the server is where it was, or waits for a request
LEMMA LoopStep ==
    ASSUME IInv, UNCHANGED <<patient, sent>>,
           stream' \in Seq(BytesOf(sent)), inflight' \in Seq(BytesOf(sent)),
           \/ Receiving
           \/ /\ pc # "receive" /\ pc' \in {"sleep", "flush"}
              /\ UNCHANGED <<step, toRead, msg>>,
           sum' \in 0..SumMax, recovery' \in {"none", "protocol"}, answered' \in Nat
    PROVE  IInv'
  <1>1. CASE Receiving
    <2>1. /\ Reading(sent, pc', step', toRead', msg')
          /\ pc' = "receive" /\ step' = "function" /\ toRead' \in Nat
          /\ msg' \in Seq(BytesOf(sent))
      BY <1>1, Restarted
    <2>2. FromSent' /\ Others'
      BY <2>1 DEF IInv, TypeOK, FromSent, Others
    <2>3. TypeOK'
      BY <2>2, Placed DEF Others, FromSent, TypeOK
    <2>4. QED  BY <2>1, <2>2, <2>3 DEF IInv, ReadingInv
  <1>2. CASE /\ pc # "receive" /\ pc' \in {"sleep", "flush"}
             /\ UNCHANGED <<step, toRead, msg>>
    <2>1. FromSent' /\ Others'
      BY <1>2 DEF IInv, TypeOK, FromSent, Others
    <2>2. TypeOK'
      BY <2>1, Placed DEF Others, FromSent, TypeOK
    <2>3. ReadingInv'
      BY <1>2 DEF IInv, ReadingInv, Reading
    <2>4. QED  BY <2>1, <2>2, <2>3 DEF IInv
  <1>3. QED  BY <1>1, <1>2

LEMMA FlushType ==
    ASSUME IInv, FlushSome
    PROVE  /\ Flushed \in Nat /\ Flushed <= Len(stream) /\ Flushed <= MaxAdu
           /\ Len(stream) \in Nat /\ stream' \in Seq(BytesOf(sent))
           /\ sum' \in 0..SumMax /\ recovery' \in {"none", "protocol"}
  <1>1. stream \in Seq(BytesOf(sent)) /\ Len(stream) \in Nat /\ sum \in 0..SumMax
        /\ recovery \in {"none", "protocol"}
    BY LenProperties DEF IInv, TypeOK, FromSent
  <1>2. Flushed \in Nat /\ Flushed <= Len(stream) /\ Flushed <= MaxAdu
    BY <1>1, Numbers DEF Flushed
  <1>3. stream' \in Seq(BytesOf(sent))
    BY <1>1, <1>2, RestType DEF FlushSome
  <1>4. sum' \in 0..SumMax /\ recovery' \in {"none", "protocol"}
    BY <1>1, <1>2, Numbers DEF FlushSome, Counts
  <1>5. QED  BY <1>1, <1>2, <1>3, <1>4

LEMMA ServerKeepsIInv ==
    ASSUME IInv, ServerStep PROVE IInv'
  <1> USE DEF IInv
  <1>1. /\ stream \in Seq(BytesOf(sent)) /\ inflight \in Seq(BytesOf(sent))
        /\ sum \in 0..SumMax /\ recovery \in {"none", "protocol"} /\ answered \in Nat
        /\ 0 \in 0..SumMax /\ <<>> \in Seq(BytesOf(sent))
    BY Numbers, EmptySeq DEF FromSent, TypeOK
  <1>2. CASE Read
    BY <1>2, ReadStep
  <1>3. CASE ReadTooMany
    BY <1>1, <1>3, LoopStep, Zenon DEF ReadTooMany, CloseConnection
  <1>4. CASE ByteTimeout
    BY <1>1, <1>4, LoopStep, Zenon DEF ByteTimeout, CloseConnection
  <1>5. CASE ReplyFails
    BY <1>1, <1>5, LoopStep, Zenon DEF ReplyFails, CloseConnection
  <1>6. CASE Answer
    <2>1. msg \in Seq(BytesOf(sent)) /\ HeaderLength + 1 <= Len(msg)
      BY <1>6 DEF Answer, FromSent, ReadingInv, Reading
    <2>2. msg[1] \in BytesOf(sent)
      BY <2>1, Numbers, LenProperties, ElementOfSeq
    <2>3. Number \in Nat
      BY <2>2 DEF Number, BytesOf
    <2>4. answered' \in Nat
      BY <1>1, <1>6, <2>3 DEF Answer
    <2>5. QED  BY <1>1, <1>6, <2>4, LoopStep DEF Answer
  <1>7. CASE Refuse
    BY <1>1, <1>7, LoopStep, Zenon DEF Refuse
  <1>8. CASE Reject
    BY <1>1, <1>8, LoopStep DEF Reject
  <1>9. CASE WakeUp
    BY <1>1, <1>9, LoopStep DEF WakeUp
  <1>10. CASE FlushSome
    <2>1. /\ pc = "flush" /\ UNCHANGED <<patient, sent, inflight, answered>>
          /\ \/ Receiving
             \/ UNCHANGED <<pc, step, toRead, msg>>
      BY <1>10 DEF FlushSome
    <2>2. QED  BY <1>1, <1>10, <2>1, FlushType, LoopStep
  <1>11. QED
    BY <1>2, <1>3, <1>4, <1>5, <1>6, <1>7, <1>8, <1>9, <1>10 DEF ServerStep

LEMMA StepIInv == IInv /\ [Next]_vars => IInv'
  <1> SUFFICES ASSUME IInv, [Next]_vars PROVE IInv'
    OBVIOUS
  <1>1. CASE UNCHANGED vars
    BY <1>1 DEF vars, IInv, TypeOK, FromSent, ReadingInv
  <1>2. CASE \E r \in Requests : SendRequest(r)
    BY <1>2, SendRequestStep
  <1>3. CASE Deliver
    BY <1>3, DeliverStep
  <1>4. CASE ServerStep
    BY <1>4, ServerKeepsIInv
  <1>5. QED  BY <1>1, <1>2, <1>3, <1>4 DEF Next

LEMMA Invariant == Spec => []IInv
  BY InitIInv, StepIInv, PTL DEF Spec

(* Types: messages are made of bytes that were sent, and the sum of a flush     *)
(* never leaves its 16 bits.                                                    *)
THEOREM TypeCorrect == Spec => []TypeOK
  <1>1. IInv => TypeOK
    BY DEF IInv
  <1>2. QED  BY <1>1, Invariant, PTL

(* Whatever arrives, in step or not, what is read stays inside the array of     *)
(* max_adu_length bytes: the check after _STEP_META is enough.                  *)
THEOREM StaysInside == Spec => []InsideBuffer
  <1>1. ASSUME IInv PROVE InsideBuffer
    <2>1. /\ sent \in Seq(Requests) /\ msg \in Seq(BytesOf(sent))
          /\ Len(msg) \in Nat /\ toRead \in Nat
          /\ pc = "receive" => step \in {"function", "meta", "data"}
      BY <1>1, LenProperties DEF IInv, TypeOK, FromSent
    <2>2. CASE pc # "receive" \/ step = "data"
      BY <1>1, <2>1, <2>2 DEF IInv, ReadingInv, Reading, InsideBuffer
    <2>3. CASE pc = "receive" /\ step = "function"
      BY <1>1, <2>1, <2>3, Numbers DEF IInv, ReadingInv, Reading, InsideBuffer
    <2>4. CASE pc = "receive" /\ step = "meta"
      <3>1. HeaderLength + 1 <= Len(msg) /\ Len(msg) + toRead = MetaEnd(sent, msg)
        BY <1>1, <2>4 DEF IInv, ReadingInv, Reading
      <3>2. QED  BY <2>1, <3>1, FunctionType DEF InsideBuffer
    <2>5. QED  BY <2>1, <2>2, <2>3, <2>4
  <1>2. QED  BY <1>1, Invariant, PTL

-----------------------------------------------------------------------------
(* The inductive invariant of the patient client: the bytes that are left on    *)
(* the way are those of its last request, in order and without a gap.           *)

Last == sent[Len(sent)]

Piece(q, from) == \A i \in 1..Len(q) : q[i] = <<Len(sent), from + i>>

Aligned ==
    /\ sent # <<>>
    /\ Piece(msg, 0) /\ Piece(stream, Len(msg))
    /\ Piece(inflight, Len(msg) + Len(stream))
    /\ Len(msg) + Len(stream) + Len(inflight) = SentLength(Last)

Settled == sent # <<>> => (Last.verdict = "legal" => answered = Len(sent))

InPhase ==
    \/ Quiescent /\ Settled
    \/ /\ pc \in {"receive", "reply", "sleep"} /\ Aligned
       /\ pc = "sleep" => Last.verdict # "legal"
    \/ /\ pc = "flush" /\ sent # <<>> /\ Piece(msg, 0) /\ inflight = <<>>
       /\ Settled /\ sum + Len(stream) <= MaxAdu

Sound == sent # <<>> => (Flushes(Last) \/ WellFormed(Last))

PatientInv == patient => Sound /\ InPhase

LEMMA LastType ==
    ASSUME IInv, sent # <<>>
    PROVE  /\ Last \in Requests /\ Len(sent) \in Nat /\ Len(sent) >= 1
           /\ Last.fn \in Nat /\ Last.count \in Nat /\ Last.size \in Nat
           /\ Last.verdict \in Verdicts
           /\ SentLength(Last) \in Nat /\ SentLength(Last) <= MaxAdu
           /\ SentLength(Last) = HeaderLength + 1 + Last.size
           /\ Last.verdict = "legal" => Last.fn \in AnsweredFunctions
  <1>1. sent \in Seq(Requests)
    BY DEF IInv, TypeOK
  <1>2. Len(sent) \in Nat /\ Len(sent) >= 1
    BY <1>1, EmptySeq, LenProperties
  <1>3. Last \in Requests
    BY <1>1, <1>2, ElementOfSeq DEF Last
  <1>4. Last.fn \in Nat /\ Last.count \in Nat /\ Last.size \in Nat
        /\ Last.verdict \in Verdicts
    BY <1>3, RequestType
  <1>5. SentLength(Last) = HeaderLength + 1 + Last.size
    BY DEF SentLength
  <1>6. /\ SentLength(Last) <= MaxAdu
        /\ Last.verdict = "legal" => Last.fn \in AnsweredFunctions
    BY <1>3, ConstantsAssumption
  <1>7. QED  BY <1>2, <1>3, <1>4, <1>5, <1>6, Numbers

LEMMA FixedIsMeta ==
    ASSUME NEW fn \in AnsweredFunctions
    PROVE  FixedSize(fn) = MetaLength(fn)
  BY DEF AnsweredFunctions, FixedSize, MetaLength, WritesMany,
         MODBUS_FC_WRITE_SINGLE_REGISTER, MODBUS_FC_REPORT_SLAVE_ID,
         MODBUS_FC_WRITE_MULTIPLE_COILS, MODBUS_FC_WRITE_MULTIPLE_REGISTERS,
         MODBUS_FC_MASK_WRITE_REGISTER, MODBUS_FC_WRITE_AND_READ_REGISTERS

\* the receiver works out the length of the last request from its first bytes
LEMMA LengthOfLast ==
    ASSUME IInv, sent # <<>>, NEW m \in Seq(BytesOf(sent)), Piece(m, 0),
           HeaderLength + 1 <= Len(m)
    PROVE  /\ FunctionIn(sent, m) = Last.fn
           /\ WellFormed(Last) /\ Last.fn \in AnsweredFunctions =>
                /\ MetaEnd(sent, m) <= SentLength(Last)
                /\ MetaEnd(sent, m) <= Len(m) => Computed(sent, m) = SentLength(Last)
  <1>1. m[HeaderLength + 1] = <<Len(sent), HeaderLength + 1>>
    BY Numbers, LenProperties DEF Piece
  <1>2. FunctionIn(sent, m) = Last.fn
    BY <1>1 DEF FunctionIn, ValueIn, Last
  <1>3. ASSUME WellFormed(Last), Last.fn \in AnsweredFunctions
        PROVE  /\ MetaEnd(sent, m) <= SentLength(Last)
               /\ MetaEnd(sent, m) <= Len(m) => Computed(sent, m) = SentLength(Last)
    <2>1. FixedSize(Last.fn) = MetaLength(Last.fn) /\ MetaLength(Last.fn) \in Nat
      BY <1>3, FixedIsMeta, LastType, MetaLengthType
    <2>2. MetaEnd(sent, m) = HeaderLength + 1 + MetaLength(Last.fn)
      BY <1>2 DEF MetaEnd
    <2>3. CASE Last.fn \in Counted
      <3>1. SentLength(Last) = HeaderLength + 1 + MetaLength(Last.fn) + Last.count
        BY <1>3, <2>1, <2>3, LastType, Numbers DEF WellFormed
      <3>2. ASSUME MetaEnd(sent, m) <= Len(m) PROVE DataIn(sent, m) = Last.count
        <4>1. /\ CountPlace(Last.fn) \in 1..Len(m)
              /\ CountPlace(Last.fn) # HeaderLength + 1
          BY <2>2, <2>3, <3>2, CountInside, Numbers, LenProperties
        <4>2. m[CountPlace(Last.fn)] = <<Len(sent), CountPlace(Last.fn)>>
          BY <4>1 DEF Piece
        <4>3. ValueIn(sent, m[CountPlace(Last.fn)]) = Last.count
          BY <2>3, <4>1, <4>2 DEF ValueIn, Last
        <4>4. QED  BY <1>2, <2>3, <4>3 DEF DataIn
      <3>3. QED  BY <2>1, <2>2, <3>1, <3>2, LastType, Numbers DEF Computed
    <2>4. CASE Last.fn \notin Counted
      <3>1. SentLength(Last) = HeaderLength + 1 + MetaLength(Last.fn)
        BY <1>3, <2>1, <2>4, LastType, Numbers DEF WellFormed
      <3>2. DataIn(sent, m) = 0
        BY <1>2, <2>4 DEF DataIn
      <3>3. QED  BY <2>1, <2>2, <3>1, <3>2, LastType, Numbers DEF Computed
    <2>5. QED  BY <2>3, <2>4
  <1>4. QED  BY <1>2, <1>3

LEMMA Lengths ==
    ASSUME IInv
    PROVE  /\ sent \in Seq(Requests) /\ Len(sent) \in Nat
           /\ msg \in Seq(BytesOf(sent)) /\ Len(msg) \in Nat
           /\ stream \in Seq(BytesOf(sent)) /\ Len(stream) \in Nat
           /\ inflight \in Seq(BytesOf(sent)) /\ Len(inflight) \in Nat
           /\ (Len(msg) = 0 <=> msg = <<>>) /\ (Len(stream) = 0 <=> stream = <<>>)
           /\ (Len(inflight) = 0 <=> inflight = <<>>)
           /\ toRead \in Nat /\ sum \in Nat /\ answered \in Nat
  BY Numbers, LenProperties, EmptySeq DEF IInv, TypeOK, FromSent

\* a legal request that is all there is read to its end, and fits
LEMMA ReadToItsEnd ==
    ASSUME IInv, Sound, Aligned, ~Flushes(Last)
    PROVE  /\ pc = "receive" => Len(msg) < SentLength(Last)
           /\ pc # "receive" => stream = <<>> /\ inflight = <<>>
           /\ Len(msg) = SentLength(Last) => stream = <<>> /\ inflight = <<>>
  <1>1. WellFormed(Last) /\ sent # <<>> /\ Piece(msg, 0)
        /\ Last.fn \in AnsweredFunctions
        /\ Len(msg) + Len(stream) + Len(inflight) = SentLength(Last)
    BY DEF Sound, Aligned, Flushes
  <1>2. Len(msg) = SentLength(Last) => stream = <<>> /\ inflight = <<>>
    BY <1>1, Lengths
  <1>3. ASSUME pc # "receive" PROVE Len(msg) = SentLength(Last)
    <2>1. /\ HeaderLength + 1 <= Len(msg) /\ MetaEnd(sent, msg) <= Len(msg)
          /\ Len(msg) = Computed(sent, msg)
      BY <1>3 DEF IInv, ReadingInv, Reading
    <2>2. QED  BY <1>1, <2>1, Lengths, LengthOfLast
  <1>4. ASSUME pc = "receive" PROVE Len(msg) < SentLength(Last)
    <2>1. CASE step = "function"
      <3>1. Len(msg) < HeaderLength + 1
        BY <1>4, <2>1, Lengths, Numbers DEF IInv, ReadingInv, Reading
      <3>2. QED  BY <1>1, <3>1, Lengths, LastType, Numbers
    <2>2. CASE step = "meta"
      <3>1. /\ HeaderLength + 1 <= Len(msg) /\ 0 < toRead
            /\ Len(msg) + toRead = MetaEnd(sent, msg)
        BY <1>4, <2>2 DEF IInv, ReadingInv, Reading
      <3>2. MetaEnd(sent, msg) <= SentLength(Last)
        BY <1>1, <3>1, Lengths, LengthOfLast
      <3>3. QED  BY <1>1, <3>1, <3>2, Lengths, LastType
    <2>3. CASE step = "data"
      <3>1. /\ HeaderLength + 1 <= Len(msg) /\ MetaEnd(sent, msg) <= Len(msg)
            /\ 0 < toRead /\ Len(msg) + toRead = Computed(sent, msg)
        BY <1>4, <2>3 DEF IInv, ReadingInv, Reading
      <3>2. Computed(sent, msg) = SentLength(Last)
        BY <1>1, <3>1, Lengths, LengthOfLast
      <3>3. QED  BY <1>1, <3>1, <3>2, Lengths, LastType
    <2>4. QED  BY <2>1, <2>2, <2>3 DEF IInv, TypeOK
  <1>5. QED  BY <1>2, <1>3, <1>4

LEMMA InitPatient == Init => PatientInv
  BY DEF Init, PatientInv, Sound, InPhase, Quiescent, Settled

LEMMA SendRequestPatient ==
    ASSUME IInv, PatientInv, NEW r \in Requests, SendRequest(r) PROVE PatientInv'
  <1> SUFFICES ASSUME patient PROVE Sound' /\ InPhase'
    BY DEF PatientInv, SendRequest
  <1>1. /\ Quiescent /\ (Flushes(r) \/ WellFormed(r))
        /\ sent' = Append(sent, r)
        /\ inflight' = inflight \o Bytes(Len(sent) + 1, r)
        /\ UNCHANGED <<patient, stream, pc, step, toRead, msg, sum, recovery, answered>>
    BY DEF SendRequest
  <1>2. /\ Len(sent') = Len(sent) + 1 /\ Last' = r /\ sent' # <<>>
    <2>1. /\ Len(sent') = Len(sent) + 1 /\ sent'[Len(sent) + 1] = r
          /\ Len(sent) \in Nat
      BY <1>1, Lengths, AppendProperties
    <2>2. sent' # <<>>
      BY <2>1, EmptySeq
    <2>3. QED  BY <2>1, <2>2 DEF Last
  <1>3. inflight' = Bytes(Len(sent) + 1, r)
    <2>1. Bytes(Len(sent) + 1, r) \in Seq(BytesOf(Append(sent, r))) /\ inflight = <<>>
      BY <1>1, Lengths, BytesType DEF Quiescent
    <2>2. QED  BY <1>1, <2>1, ConcatEmptySeq
  <1>4. /\ Len(inflight') = SentLength(r) /\ SentLength(r) \in Nat
        /\ \A i \in 1..SentLength(r) : inflight'[i] = <<Len(sent'), i>>
    BY <1>2, <1>3, Lengths, BytesType
  <1>5. msg' = <<>> /\ stream' = <<>> /\ pc' = "receive"
    BY <1>1 DEF Quiescent
  <1>6. Len(msg') = 0 /\ Len(stream') = 0
    BY <1>5, EmptySeq
  <1>7. Piece(msg, 0)' /\ Piece(stream, Len(msg))'
    BY <1>6 DEF Piece
  <1>8. Piece(inflight, Len(msg) + Len(stream))'
    BY <1>4, <1>6 DEF Piece
  <1>9. Aligned'
    BY <1>2, <1>4, <1>6, <1>7, <1>8 DEF Aligned, SentLength
  <1>10. Sound'
    BY <1>1, <1>2 DEF Sound, WellFormed, Flushes
  <1>11. QED  BY <1>5, <1>9, <1>10 DEF InPhase

LEMMA DeliverPatient ==
    ASSUME IInv, PatientInv, Deliver PROVE PatientInv'
  <1>1. UNCHANGED <<patient, sent, pc, step, toRead, msg, sum, recovery, answered>>
        /\ inflight # <<>>
    BY DEF Deliver
  <1> SUFFICES ASSUME patient PROVE Sound' /\ InPhase'
    BY <1>1 DEF PatientInv
  <1>2. Sound'
    BY <1>1 DEF PatientInv, Sound, Last, WellFormed, Flushes
  <1>3. /\ pc \in {"receive", "reply", "sleep"} /\ Aligned
        /\ pc = "sleep" => Last.verdict # "legal"
    BY <1>1 DEF PatientInv, InPhase, Quiescent
  <1>4. PICK n \in 1..Len(inflight) :
          /\ stream' = stream \o SubSeq(inflight, 1, n)
          /\ inflight' = SubSeq(inflight, n + 1, Len(inflight))
    BY DEF Deliver
  <1>5. \A i \in 1..Len(inflight) : inflight[i] \in BytesOf(sent)
    BY Lengths, ElementOfSeq
  <1>6. /\ SubSeq(inflight, 1, n) \in Seq(BytesOf(sent))
        /\ Len(SubSeq(inflight, 1, n)) = n
        /\ \A i \in 1..n : SubSeq(inflight, 1, n)[i] = inflight[i]
    BY <1>5, Lengths, SubSeqProperties
  <1>7. /\ Len(inflight') = Len(inflight) - n
        /\ \A i \in 1..(Len(inflight) - n) : inflight'[i] = inflight[n + i]
    <2>1. /\ Len(SubSeq(inflight, n + 1, Len(inflight))) =
               IF n + 1 <= Len(inflight) THEN Len(inflight) - (n + 1) + 1 ELSE 0
          /\ \A i \in 1..(Len(inflight) - (n + 1) + 1) :
               SubSeq(inflight, n + 1, Len(inflight))[i] = inflight[(n + 1) + i - 1]
      BY <1>5, Lengths, SubSeqProperties
    <2>2. QED  BY <1>4, <2>1, Lengths
  <1>8. /\ Len(stream') = Len(stream) + n
        /\ \A i \in 1..(Len(stream) + n) : stream'[i] =
             IF i <= Len(stream) THEN stream[i] ELSE inflight[i - Len(stream)]
    <2>1. /\ Len(stream') = Len(stream) + n
          /\ \A i \in 1..(Len(stream) + n) : stream'[i] =
               IF i <= Len(stream) THEN stream[i]
               ELSE SubSeq(inflight, 1, n)[i - Len(stream)]
      BY <1>4, <1>6, Lengths, ConcatProperties
    <2>2. QED  BY <1>6, <2>1, Lengths
  <1>9. /\ \A i \in 1..Len(stream) : stream[i] = <<Len(sent), Len(msg) + i>>
        /\ \A i \in 1..Len(inflight) :
             inflight[i] = <<Len(sent), Len(msg) + Len(stream) + i>>
    BY <1>3 DEF Aligned, Piece
  <1>10. \A i \in 1..Len(stream') : stream'[i] = <<Len(sent), Len(msg) + i>>
    <2> TAKE i \in 1..Len(stream')
    <2>1. CASE i <= Len(stream)
      <3>1. i \in 1..Len(stream) /\ i \in 1..(Len(stream) + n)
        BY <1>8, <2>1, Lengths
      <3>2. stream'[i] = stream[i]
        BY <1>8, <2>1, <3>1
      <3>3. QED  BY <1>9, <3>1, <3>2
    <2>2. CASE ~(i <= Len(stream))
      <3>1. i - Len(stream) \in 1..Len(inflight)
        BY <1>8, <2>2, Lengths
      <3> DEFINE j == i - Len(stream)
      <3>5. inflight[j] = <<Len(sent), Len(msg) + Len(stream) + j>>
        BY <1>9, <3>1
      <3>2. Len(msg) + Len(stream) + (i - Len(stream)) = Len(msg) + i
        BY <3>1, Lengths
      <3>3. stream'[i] = inflight[i - Len(stream)]
        BY <1>8, <2>2, Lengths
      <3>4. QED  BY <3>2, <3>3, <3>5
    <2>3. QED  BY <2>1, <2>2
  <1>11. \A i \in 1..Len(inflight') :
           inflight'[i] = <<Len(sent), Len(msg) + Len(stream') + i>>
    <2> TAKE i \in 1..Len(inflight')
    <2>1. n + i \in 1..Len(inflight) /\ inflight'[i] = inflight[n + i]
      BY <1>7, Lengths
    <2>2. Len(msg) + Len(stream) + (n + i) = Len(msg) + Len(stream') + i
      BY <1>7, <1>8, Lengths
    <2>3. QED  BY <1>9, <2>1, <2>2
  <1>12. Len(msg) + Len(stream') + Len(inflight') = SentLength(Last)
    BY <1>3, <1>7, <1>8, Lengths DEF Aligned
  <1>13. Aligned'
    BY <1>1, <1>3, <1>10, <1>11, <1>12 DEF Aligned, Piece, Last, SentLength
  <1>14. QED  BY <1>1, <1>2, <1>3, <1>13 DEF InPhase, Last

\* the bytes after the first n of a piece
LEMMA RestPiece ==
    ASSUME NEW S, NEW q \in Seq(S), NEW n \in Nat, n <= Len(q)
    PROVE  /\ Len(SubSeq(q, n + 1, Len(q))) = Len(q) - n
           /\ \A i \in 1..(Len(q) - n) : SubSeq(q, n + 1, Len(q))[i] = q[n + i]
  <1>1. Len(q) \in Nat /\ \A i \in (n + 1)..Len(q) : q[i] \in S
    BY LenProperties, ElementOfSeq
  <1>2. /\ Len(SubSeq(q, n + 1, Len(q))) =
             IF n + 1 <= Len(q) THEN Len(q) - (n + 1) + 1 ELSE 0
        /\ \A i \in 1..(Len(q) - (n + 1) + 1) :
             SubSeq(q, n + 1, Len(q))[i] = q[(n + 1) + i - 1]
    BY <1>1, SubSeqProperties
  <1>3. QED  BY <1>1, <1>2

LEMMA GotPiece ==
    ASSUME IInv, pc = "receive", Aligned PROVE Piece(Got, 0)
  <1>1. /\ Len(Got) = Len(msg) + Taken /\ Taken \in Nat /\ Taken <= Len(stream)
        /\ \A i \in 1..Len(msg) : Got[i] = msg[i]
        /\ \A i \in 1..Taken : Got[Len(msg) + i] = stream[i]
    BY GotType
  <1>2. /\ \A i \in 1..Len(msg) : msg[i] = <<Len(sent), 0 + i>>
        /\ \A i \in 1..Len(stream) : stream[i] = <<Len(sent), Len(msg) + i>>
    BY DEF Aligned, Piece
  <1>3. ASSUME NEW i \in 1..Len(Got) PROVE Got[i] = <<Len(sent), 0 + i>>
    <2>1. CASE i <= Len(msg)
      <3>1. i \in 1..Len(msg)
        BY <2>1, Lengths
      <3>2. QED  BY <1>1, <1>2, <3>1
    <2>2. CASE ~(i <= Len(msg))
      <3> DEFINE j == i - Len(msg)
      <3>1. j \in 1..Taken /\ j \in 1..Len(stream) /\ Len(msg) + j = i
        BY <1>1, <2>2, Lengths
      <3>2. Got[Len(msg) + j] = stream[j]
        BY <1>1, <3>1
      <3>3. stream[j] = <<Len(sent), Len(msg) + j>>
        BY <1>2, <3>1
      <3>4. QED  BY <3>1, <3>2, <3>3
    <2>3. QED  BY <2>1, <2>2
  <1>4. QED  BY <1>3 DEF Piece

LEMMA ReadPatient ==
    ASSUME IInv, PatientInv, Read PROVE PatientInv'
  <1>1. /\ UNCHANGED <<patient, sent, inflight, sum, recovery, answered>>
        /\ pc = "receive" /\ stream # <<>> /\ msg' = Got
        /\ pc' \in {"receive", "reply"}
        /\ stream' = SubSeq(stream, Taken + 1, Len(stream))
    BY ReadReading DEF Read
  <1> SUFFICES ASSUME patient PROVE Sound' /\ InPhase'
    BY <1>1 DEF PatientInv
  <1>2. Sound'
    BY <1>1 DEF PatientInv, Sound, Last, WellFormed, Flushes
  <1>3. Aligned
    BY <1>1 DEF PatientInv, InPhase, Quiescent
  <1>4. /\ Taken \in Nat /\ Taken <= Len(stream)
        /\ Len(Got) = Len(msg) + Taken
        /\ \A i \in 1..Len(msg) : Got[i] = msg[i]
        /\ \A i \in 1..Taken : Got[Len(msg) + i] = stream[i]
    BY <1>1, GotType
  <1>5. /\ Len(stream') = Len(stream) - Taken
        /\ \A i \in 1..(Len(stream) - Taken) : stream'[i] = stream[Taken + i]
    BY <1>1, <1>4, Lengths, RestPiece
  <1>6. /\ \A i \in 1..Len(msg) : msg[i] = <<Len(sent), 0 + i>>
        /\ \A i \in 1..Len(stream) : stream[i] = <<Len(sent), Len(msg) + i>>
        /\ \A i \in 1..Len(inflight) :
             inflight[i] = <<Len(sent), Len(msg) + Len(stream) + i>>
    BY <1>3 DEF Aligned, Piece
  <1>7. \A i \in 1..Len(Got) : Got[i] = <<Len(sent), 0 + i>>
    BY <1>1, <1>3, GotPiece DEF Piece
  <1>8. \A i \in 1..Len(stream') : stream'[i] = <<Len(sent), Len(Got) + i>>
    <2> TAKE i \in 1..Len(stream')
    <2> DEFINE j == Taken + i
    <2>1. j \in 1..Len(stream) /\ Len(msg) + j = Len(Got) + i /\ stream'[i] = stream[j]
      BY <1>4, <1>5, Lengths
    <2>2. stream[j] = <<Len(sent), Len(msg) + j>>
      BY <1>6, <2>1
    <2>3. QED  BY <2>1, <2>2
  <1>9. /\ Len(Got) + Len(stream') = Len(msg) + Len(stream)
        /\ Len(Got) + Len(stream') + Len(inflight) = SentLength(Last)
    BY <1>3, <1>4, <1>5, Lengths DEF Aligned
  <1>10. \A i \in 1..Len(inflight) :
           inflight[i] = <<Len(sent), Len(Got) + Len(stream') + i>>
    BY <1>6, <1>9
  <1>11. Aligned'
    BY <1>1, <1>3, <1>7, <1>8, <1>9, <1>10 DEF Aligned, Piece, Last, SentLength
  <1>12. QED  BY <1>1, <1>2, <1>11 DEF InPhase

\* the server waits for a request again and nothing is left
LEMMA QuietAgain ==
    ASSUME IInv, PatientInv, patient, Receiving, stream' = <<>>, inflight' = <<>>,
           UNCHANGED <<patient, sent>>, Settled'
    PROVE  PatientInv'
  BY DEF PatientInv, Sound, Last, WellFormed, Flushes, InPhase, Quiescent, Receiving

LEMMA ClosePatient ==
    ASSUME IInv, PatientInv, ReadTooMany \/ ByteTimeout \/ ReplyFails
    PROVE  PatientInv'
  <1>1. /\ UNCHANGED <<patient, sent, recovery, answered>> /\ Receiving
        /\ stream' = <<>> /\ inflight' = <<>>
    BY Zenon DEF ReadTooMany, ByteTimeout, ReplyFails, CloseConnection
  <1>2. CASE ~patient
    BY <1>1, <1>2 DEF PatientInv
  <1>3. CASE patient
    <2> SUFFICES ASSUME Aligned, Sound, sent # <<>>, Last.verdict = "legal"
                 PROVE  FALSE
      <3>1. Settled' \/ (Aligned /\ Sound /\ sent # <<>> /\ Last.verdict = "legal")
        <4>1. Settled => Settled'
          BY <1>1 DEF Settled, Last
        <4>2. Sound /\ InPhase
          BY <1>3 DEF PatientInv
        <4>3. CASE Settled
          BY <4>1, <4>3
        <4>4. CASE ~Settled
          BY <4>2, <4>4 DEF InPhase, Settled
        <4>5. QED  BY <4>3, <4>4
      <3>2. CASE Settled'
        BY <1>1, <1>3, <3>2, QuietAgain
      <3>3. QED  BY <3>1, <3>2
    <2>1. Last.fn \in AnsweredFunctions /\ ~Flushes(Last) /\ WellFormed(Last)
      BY LastType DEF Sound, Flushes
    <2>2. CASE ByteTimeout
      <3>1. stream = <<>> /\ inflight = <<>> /\ pc = "receive"
        BY <1>3, <2>2 DEF ByteTimeout
      <3>2. Len(msg) = SentLength(Last)
        BY <3>1, Lengths DEF Aligned
      <3>3. QED  BY <2>1, <3>1, <3>2, Lengths, LastType, ReadToItsEnd
    <2>3. CASE ReadTooMany
      <3>1. pc = "receive" /\ Len(stream) >= toRead /\ MetaRead(Got) /\ ~Fits(Got)
        BY <2>3 DEF ReadTooMany
      <3>2. Taken = toRead
        BY <3>1, Lengths DEF Taken
      <3>3. /\ Len(Got) = MetaEnd(sent, Got) /\ HeaderLength + 1 <= Len(Got)
            /\ Computed(sent, Got) = Len(Got) + DataLength(Got)
        BY <3>1, <3>2, AtMetaEnd
      <3>4. Piece(Got, 0) /\ Got \in Seq(BytesOf(sent)) /\ Len(Got) \in Nat
        BY <3>1, GotType, GotPiece, Lengths
      <3>5. MetaEnd(sent, Got) <= Len(Got)
        BY <3>3, <3>4
      <3>6. Computed(sent, Got) = SentLength(Last)
        BY <2>1, <3>3, <3>4, <3>5, LengthOfLast
      <3>7. QED  BY <3>1, <3>3, <3>6, LastType DEF Fits
    <2>4. CASE ReplyFails
      <3>1. pc = "reply" /\ Function(msg) = MODBUS_FC_READ_EXCEPTION_STATUS
        BY <2>4 DEF ReplyFails
      <3>2. HeaderLength + 1 <= Len(msg)
        BY <3>1 DEF IInv, ReadingInv, Reading
      <3>3. Function(msg) = Last.fn
        BY <3>2, SameValues, Lengths, LengthOfLast DEF Aligned
      <3>4. MODBUS_FC_READ_EXCEPTION_STATUS \notin AnsweredFunctions
        BY DEF MODBUS_FC_READ_EXCEPTION_STATUS, AnsweredFunctions, WritesMany,
               MODBUS_FC_WRITE_SINGLE_REGISTER, MODBUS_FC_REPORT_SLAVE_ID,
               MODBUS_FC_WRITE_MULTIPLE_COILS, MODBUS_FC_WRITE_MULTIPLE_REGISTERS,
               MODBUS_FC_MASK_WRITE_REGISTER, MODBUS_FC_WRITE_AND_READ_REGISTERS
      <3>5. QED  BY <2>1, <3>1, <3>3, <3>4
    <2>5. QED  BY <2>2, <2>3, <2>4
  <1>4. QED  BY <1>2, <1>3

LEMMA CoilNotFlushed == MODBUS_FC_WRITE_SINGLE_COIL \notin FlushedFunctions
  BY DEF MODBUS_FC_WRITE_SINGLE_COIL, FlushedFunctions, WritesMany,
         MODBUS_FC_WRITE_MULTIPLE_COILS, MODBUS_FC_WRITE_MULTIPLE_REGISTERS,
         MODBUS_FC_WRITE_AND_READ_REGISTERS

LEMMA FlushedAreAnswered == FlushedFunctions \subseteq AnsweredFunctions
  BY DEF FlushedFunctions, AnsweredFunctions, WritesMany,
         MODBUS_FC_WRITE_SINGLE_REGISTER, MODBUS_FC_REPORT_SLAVE_ID,
         MODBUS_FC_MASK_WRITE_REGISTER, MODBUS_FC_WRITE_AND_READ_REGISTERS

\* in modbus_reply the message is a request of the client, from its first byte
LEMMA AtReply ==
    ASSUME IInv, PatientInv, patient, pc = "reply"
    PROVE  /\ Aligned /\ Sound /\ sent # <<>> /\ Whole
           /\ Number = Len(sent) /\ Verdict = {Last.verdict}
           /\ Function(msg) = Last.fn
           /\ ~Flushes(Last) =>
                stream = <<>> /\ inflight = <<>>
  <1>1. Aligned /\ Sound /\ sent # <<>>
    BY DEF PatientInv, InPhase, Quiescent, Aligned
  <1>2. HeaderLength + 1 <= Len(msg) /\ Piece(msg, 0)
    BY <1>1 DEF IInv, ReadingInv, Reading, Aligned
  <1>3. \A i \in 1..Len(msg) : msg[i] = <<Len(sent), i>>
    BY <1>2, Lengths DEF Piece
  <1>4. Number = Len(sent)
    BY <1>2, <1>3, Lengths, Numbers DEF Number
  <1>5. Whole
    BY <1>3, <1>4 DEF Whole
  <1>6. Function(msg) = Last.fn
    BY <1>1, <1>2, SameValues, Lengths, LengthOfLast
  <1>7. Verdict = {Last.verdict}
    BY <1>4, <1>5 DEF Verdict, Last
  <1>8. ~Flushes(Last) =>
          stream = <<>> /\ inflight = <<>>
    BY <1>1, ReadToItsEnd
  <1>9. QED  BY <1>1, <1>4, <1>5, <1>6, <1>7, <1>8

LEMMA ReplyPatient ==
    ASSUME IInv, PatientInv, Answer \/ Refuse \/ Reject PROVE PatientInv'
  <1>1. pc = "reply" /\ UNCHANGED <<patient, sent, inflight, stream, recovery>>
    BY DEF Answer, Refuse, Reject
  <1>2. CASE ~patient
    BY <1>1, <1>2 DEF PatientInv
  <1>3. CASE patient /\ Answer
    <2>1. Receiving /\ "legal" \in Verdict /\ Function(msg) \in AnsweredFunctions
      BY <1>3 DEF Answer
    <2>2. Last.verdict = "legal" /\ ~Flushes(Last)
      BY <1>1, <1>3, <2>1, AtReply DEF Flushes
    <2>3. stream = <<>> /\ inflight = <<>> /\ Whole /\ Number = Len(sent)
      BY <1>1, <1>3, <2>2, AtReply
    <2>4. answered' = Len(sent)
      BY <1>3, <2>3 DEF Answer
    <2>5. Settled'
      BY <1>1, <2>4 DEF Settled
    <2>6. QED  BY <1>1, <1>3, <2>1, <2>3, <2>5, QuietAgain
  <1>4. CASE patient /\ Refuse
    <2>1. /\ Receiving /\ Function(msg) \in AnsweredFunctions
          /\ \/ "address" \in Verdict
             \/ "value" \in Verdict /\ Function(msg) = MODBUS_FC_WRITE_SINGLE_COIL
          /\ answered' = answered
      BY <1>4 DEF Refuse
    <2>2. Last.verdict # "legal" /\ ~Flushes(Last)
      BY <1>1, <1>4, <2>1, CoilNotFlushed, AtReply DEF Flushes
    <2>3. stream = <<>> /\ inflight = <<>>
      BY <1>1, <1>4, <2>2, AtReply
    <2>4. Settled'
      BY <1>1, <2>2 DEF Settled, Last
    <2>5. QED  BY <1>1, <1>4, <2>1, <2>3, <2>4, QuietAgain
  <1>5. CASE patient /\ Reject
    <2>1. Rejected /\ pc' = "sleep"
      BY <1>5 DEF Reject
    <2>2. Last.verdict # "legal"
      BY <1>1, <1>5, <2>1, AtReply, LastType, FlushedAreAnswered DEF Rejected
    <2>3. Aligned'
      BY <1>1, <1>5, AtReply DEF Reject, Aligned, Piece, Last, SentLength
    <2>4. Sound
      BY <1>5 DEF PatientInv
    <2>5. QED
      BY <1>1, <1>5, <2>1, <2>2, <2>3, <2>4
         DEF PatientInv, Sound, InPhase, Last, WellFormed, Flushes
  <1>6. QED  BY <1>2, <1>3, <1>4, <1>5

LEMMA WakeUpPatient ==
    ASSUME IInv, PatientInv, WakeUp PROVE PatientInv'
  <1>1. /\ pc = "sleep" /\ pc' = "flush" /\ sum' = 0
        /\ UNCHANGED <<patient, sent, inflight, stream, msg, recovery, answered>>
    BY DEF WakeUp
  <1> SUFFICES ASSUME patient PROVE Sound' /\ InPhase'
    BY <1>1 DEF PatientInv
  <1>2. Sound' /\ inflight = <<>>
    BY <1>1 DEF WakeUp, PatientInv, Sound, Last, WellFormed, Flushes
  <1>3. Aligned /\ Last.verdict # "legal" /\ sent # <<>>
    BY <1>1 DEF PatientInv, InPhase, Quiescent, Aligned
  <1>4. Settled'
    BY <1>1, <1>3 DEF Settled, Last
  <1>5. sum' + Len(stream) <= MaxAdu
    <2>1. Len(msg) + Len(stream) + Len(inflight) = SentLength(Last)
      BY <1>3 DEF Aligned
    <2>2. SentLength(Last) <= MaxAdu /\ SentLength(Last) \in Nat /\ MaxAdu \in Nat
      BY <1>3, LastType, Numbers
    <2>3. QED  BY <1>1, <2>1, <2>2, Lengths
  <1>6. Piece(msg, 0)'
    BY <1>1, <1>3 DEF Aligned, Piece
  <1>7. QED  BY <1>1, <1>2, <1>3, <1>4, <1>5, <1>6 DEF InPhase

LEMMA FlushPatient ==
    ASSUME IInv, PatientInv, FlushSome PROVE PatientInv'
  <1>1. /\ pc = "flush" /\ UNCHANGED <<patient, sent, inflight, answered>>
        /\ stream' = SubSeq(stream, Flushed + 1, Len(stream))
    BY DEF FlushSome
  <1>2. CASE ~patient
    BY <1>1, <1>2 DEF PatientInv
  <1>3. CASE patient
    <2>1. /\ sent # <<>> /\ Piece(msg, 0) /\ inflight = <<>>
          /\ Settled /\ sum + Len(stream) <= MaxAdu /\ Sound
      BY <1>1, <1>3 DEF PatientInv, InPhase, Quiescent
    <2>2. /\ Flushed \in Nat /\ Flushed <= Len(stream)
          /\ Len(stream') = Len(stream) - Flushed
          /\ stream' \in Seq(BytesOf(sent))
      BY <1>1, FlushType, Lengths, RestPiece
    <2>3. Counts(Flushed)
      BY <2>1, <2>2, Lengths, Numbers DEF Counts
    <2>4. sum' = sum + Flushed
      BY <2>3 DEF FlushSome
    <2>5. CASE Flushed = MaxAdu
      <3>1. UNCHANGED <<pc, step, toRead, msg>>
        BY <2>3, <2>5 DEF FlushSome
      <3>2. sum' + Len(stream') <= MaxAdu
        BY <2>1, <2>2, <2>4, Lengths, Numbers
      <3>3. Settled' /\ Sound' /\ Piece(msg, 0)'
        BY <1>1, <2>1, <3>1 DEF Settled, Sound, Piece, Last, WellFormed, Flushes
      <3>4. QED  BY <1>1, <2>1, <2>4, <3>1, <3>2, <3>3 DEF PatientInv, InPhase
    <2>6. CASE Flushed # MaxAdu
      <3>1. Receiving
        BY <2>3, <2>6 DEF FlushSome
      <3>2. Flushed = Len(stream)
        BY <2>6 DEF Flushed
      <3>3. stream' = <<>>
        BY <2>2, <3>2, Lengths, EmptySeq
      <3>4. Settled'
        BY <1>1, <2>1 DEF Settled, Last
      <3>5. QED  BY <1>1, <1>3, <2>1, <2>4, <3>1, <3>3, <3>4, QuietAgain
    <2>7. QED  BY <2>5, <2>6
  <1>4. QED  BY <1>2, <1>3

LEMMA StepPatient == IInv /\ PatientInv /\ [Next]_vars => PatientInv'
  <1> SUFFICES ASSUME IInv, PatientInv, [Next]_vars PROVE PatientInv'
    OBVIOUS
  <1>1. CASE UNCHANGED vars
    BY <1>1 DEF vars, PatientInv, Sound, InPhase, Quiescent, Settled, Aligned, Piece,
                Last, WellFormed, Flushes, SentLength
  <1>2. CASE \E r \in Requests : SendRequest(r)
    BY <1>2, SendRequestPatient
  <1>3. CASE Deliver
    BY <1>3, DeliverPatient
  <1>4. CASE ServerStep
    BY <1>4, ReadPatient, ClosePatient, ReplyPatient, WakeUpPatient, FlushPatient
       DEF ServerStep
  <1>5. QED  BY <1>1, <1>2, <1>3, <1>4 DEF Next

LEMMA PatientInvariant == Spec => []PatientInv
  BY InitPatient, StepPatient, Invariant, PTL DEF Spec

(* A client that waits is always understood: its next message is read from      *)
(* its first byte, whatever requests it sent before, with whatever byte count,  *)
(* provided that those of another length are rejected with a flush.             *)
THEOREM AlwaysInStep == Spec => []InStep
  <1>1. ASSUME IInv, PatientInv PROVE InStep
    <2> SUFFICES ASSUME patient, msg # <<>> PROVE Whole
      BY DEF InStep
    <2>1. Piece(msg, 0)
      BY <1>1 DEF PatientInv, InPhase, Quiescent, Aligned
    <2>2. \A i \in 1..Len(msg) : msg[i] = <<Len(sent), i>>
      BY <1>1, <2>1, Lengths DEF Piece
    <2>3. 1 \in 1..Len(msg)
      BY <1>1, Lengths
    <2>4. Number = Len(sent)
      BY <2>2, <2>3 DEF Number
    <2>5. QED  BY <2>2, <2>4 DEF Whole
  <1>2. QED  BY <1>1, Invariant, PatientInvariant, PTL

(* Each legal request of such a client is answered before the server waits      *)
(* again (modbus_reply).                                                        *)
THEOREM LegalRequestsAnswered == Spec => []LegalAnswered
  <1>1. ASSUME IInv, PatientInv PROVE LegalAnswered
    <2> SUFFICES ASSUME patient, Quiescent, sent # <<>> PROVE Settled
      BY DEF LegalAnswered, Settled, Last
    <2>1. CASE Aligned
      <3>1. Len(msg) + Len(stream) + Len(inflight) = SentLength(Last)
        BY <2>1 DEF Aligned
      <3>2. Len(msg) = 0 /\ Len(stream) = 0 /\ Len(inflight) = 0
        BY <1>1, Lengths DEF Quiescent
      <3>3. QED  BY <1>1, <3>1, <3>2, LastType, Numbers
    <2>2. CASE ~Aligned
      BY <1>1, <2>2 DEF PatientInv, InPhase
    <2>3. QED  BY <2>1, <2>2
  <1>2. QED  BY <1>1, Invariant, PatientInvariant, PTL

-----------------------------------------------------------------------------
(* The inductive invariant of the flush: a byte is followed by no more bytes    *)
(* than the requests sent since its own can have, and the bytes already flushed *)
(* count among those that follow the rejected request.                          *)

\* k bytes can follow byte b when n requests have been sent
Room(n, b, k) == k < (n - b[1] + 1) * MaxAdu

Cleared == IF pc = "flush" THEN sum ELSE 0

Behind ==
    /\ \A i \in 1..Len(inflight) : Room(Len(sent), inflight[i], Len(inflight) - i)
    /\ \A i \in 1..Len(stream) :
         Room(Len(sent), stream[i], Len(stream) - i + Len(inflight))
    /\ msg # <<>> => Room(Len(sent), msg[1], Cleared + Len(stream) + Len(inflight))

LEMMA RoomForFewer ==
    ASSUME NEW n \in Nat, NEW b \in Places, NEW k \in Nat, NEW j \in Nat, j <= k,
           Room(n, b, k)
    PROVE  Room(n, b, j)
  <1> DEFINE x == (n - b[1] + 1) * MaxAdu
  <1>1. x \in Int
    BY Numbers DEF Places
  <1>2. k < x
    BY DEF Room
  <1> HIDE DEF x
  <1>3. j < x
    BY <1>1, <1>2
  <1>4. QED  BY <1>3 DEF Room, x

\* one more request
LEMMA RoomForMore ==
    ASSUME NEW n \in Nat, NEW b \in Places, NEW k \in Nat, NEW m \in Nat,
           m <= MaxAdu, Room(n, b, k)
    PROVE  Room(n + 1, b, k + m)
  <1> DEFINE d == n - b[1] + 1
  <1>1. d \in Int /\ MaxAdu \in Nat /\ (n + 1) - b[1] + 1 = d + 1
    BY Numbers DEF Places
  <1>2. k < d * MaxAdu
    BY DEF Room
  <1> HIDE DEF d
  <1>3. (d + 1) * MaxAdu = d * MaxAdu + MaxAdu /\ d * MaxAdu \in Int
    BY <1>1
  <1>4. k + m < (d + 1) * MaxAdu
    BY <1>1, <1>2, <1>3
  <1>5. QED  BY <1>1, <1>4 DEF Room

LEMMA RoomInLast ==
    ASSUME NEW n \in Nat, NEW b \in Places, b[1] = n, NEW k \in Nat, k < MaxAdu
    PROVE  Room(n, b, k)
  <1>1. (n - b[1] + 1) * MaxAdu = MaxAdu
    BY Numbers
  <1>2. QED  BY <1>1 DEF Room

\* the bytes of the channels have a place, and so has the first of the message
LEMMA Located ==
    ASSUME IInv
    PROVE  /\ \A i \in 1..Len(inflight) : inflight[i] \in Places
           /\ \A i \in 1..Len(stream) : stream[i] \in Places
           /\ msg # <<>> => msg[1] \in Places
           /\ Cleared \in Nat
  <1>1. /\ inflight \in Seq(Places) /\ stream \in Seq(Places) /\ msg \in Seq(Places)
        /\ sum \in Nat
    BY Numbers DEF IInv, TypeOK
  <1>2. msg # <<>> => 1 \in 1..Len(msg)
    BY <1>1, LenProperties, EmptySeq
  <1>3. QED  BY <1>1, <1>2, ElementOfSeq DEF Cleared

LEMMA InitBehind == Init => Behind
  <1> SUFFICES ASSUME Init PROVE Behind
    OBVIOUS
  <1>1. inflight = <<>> /\ stream = <<>> /\ msg = <<>>
    BY DEF Init
  <1>2. Len(inflight) = 0 /\ Len(stream) = 0
    BY <1>1, EmptySeq
  <1>3. QED  BY <1>1, <1>2 DEF Behind

LEMMA Concatenated ==
    ASSUME NEW S, NEW p \in Seq(S), NEW q \in Seq(S)
    PROVE  /\ Len(p \o q) = Len(p) + Len(q)
           /\ \A i \in 1..(Len(p) + Len(q)) :
                (p \o q)[i] = IF i <= Len(p) THEN p[i] ELSE q[i - Len(p)]
  BY ConcatProperties

LEMMA SendRequestBehind ==
    ASSUME IInv, Behind, NEW r \in Requests, SendRequest(r) PROVE Behind'
  <1>1. /\ sent' = Append(sent, r)
        /\ inflight' = inflight \o Bytes(Len(sent) + 1, r)
        /\ UNCHANGED <<stream, pc, msg, sum>>
    BY DEF SendRequest
  <1> DEFINE N == Len(sent)  L == SentLength(r)  F == Len(inflight)
  <1>2. /\ N \in Nat /\ Len(sent') = N + 1
        /\ Bytes(N + 1, r) \in Seq(BytesOf(Append(sent, r)))
        /\ Len(Bytes(N + 1, r)) = L /\ L \in Nat /\ L <= MaxAdu
        /\ \A i \in 1..L : Bytes(N + 1, r)[i] = <<N + 1, i>>
    BY <1>1, Lengths, BytesType, AppendProperties
  <1>3. inflight \in Seq(BytesOf(Append(sent, r))) /\ F \in Nat
    <2>1. sent \in Seq(Requests) /\ inflight \in Seq(BytesOf(sent)) /\ F \in Nat
      BY Lengths DEF IInv, TypeOK
    <2>2. QED  BY <2>1, SentMore, SeqMonotonic
  <1>4. /\ Len(inflight') = F + L
        /\ \A i \in 1..(F + L) : inflight'[i] =
             IF i <= F THEN inflight[i] ELSE Bytes(N + 1, r)[i - F]
    <2> DEFINE S == BytesOf(Append(sent, r))  q == Bytes(N + 1, r)
    <2>1. inflight \in Seq(S) /\ q \in Seq(S) /\ Len(q) = L
          /\ inflight' = inflight \o q
      BY <1>1, <1>2, <1>3
    <2> HIDE DEF S, q, L
    <2>2. /\ Len(inflight') = F + L
          /\ \A i \in 1..(F + L) :
               inflight'[i] = IF i <= F THEN inflight[i] ELSE q[i - F]
      BY <2>1, Concatenated, Zenon
    <2>3. QED  BY <2>2 DEF q
  <1>5. ASSUME NEW i \in 1..Len(inflight')
        PROVE  Room(N + 1, inflight'[i], Len(inflight') - i)
    <2>1. CASE i <= F
      <3>1. i \in 1..F /\ inflight'[i] = inflight[i] /\ F - i \in Nat
            /\ Len(inflight') - i = (F - i) + L
        BY <1>2, <1>3, <1>4, <1>5, <2>1
      <3>2. Room(N, inflight[i], F - i) /\ inflight[i] \in Places
        BY <3>1, Located DEF Behind
      <3>3. Room(N + 1, inflight[i], (F - i) + L)
        BY <1>2, <3>1, <3>2, RoomForMore
      <3>4. QED  BY <3>1, <3>3
    <2>2. CASE ~(i <= F)
      <3> DEFINE j == i - F
      <3>1. j \in 1..L /\ inflight'[i] = Bytes(N + 1, r)[j]
            /\ Len(inflight') - i = L - j
        BY <1>2, <1>3, <1>4, <1>5, <2>2
      <3>2. inflight'[i] = <<N + 1, j>>
        BY <1>2, <3>1
      <3>3. <<N + 1, j>> \in Places /\ L - j \in Nat /\ L - j < MaxAdu /\ N + 1 \in Nat
        <4>1. N + 1 \in Nat \ {0} /\ j \in Nat \ {0}
          BY <1>2, <3>1
        <4>2. L - j \in Nat /\ L - j < MaxAdu
          BY <1>2, <3>1, Numbers
        <4>3. QED  BY <4>1, <4>2 DEF Places
      <3>4. Room(N + 1, <<N + 1, j>>, L - j)
        BY <3>3, RoomInLast
      <3>5. QED  BY <3>1, <3>2, <3>4
    <2>3. QED  BY <2>1, <2>2
  <1>6. ASSUME NEW i \in 1..Len(stream)
        PROVE  Room(N + 1, stream[i], Len(stream) - i + Len(inflight'))
    <2>1. /\ Room(N, stream[i], Len(stream) - i + F) /\ stream[i] \in Places
          /\ Len(stream) \in Nat
      BY <1>6, Located, Lengths DEF Behind
    <2>2. /\ Len(stream) - i + F \in Nat
          /\ Len(stream) - i + Len(inflight') = (Len(stream) - i + F) + L
      BY <1>2, <1>3, <1>4, <1>6, <2>1
    <2>3. QED  BY <1>2, <2>1, <2>2, RoomForMore
  <1>7. ASSUME msg # <<>>
        PROVE  Room(N + 1, msg[1], Cleared + Len(stream) + Len(inflight'))
    <2>1. /\ Room(N, msg[1], Cleared + Len(stream) + F) /\ msg[1] \in Places
          /\ Len(stream) \in Nat /\ Cleared \in Nat
      BY <1>7, Located, Lengths DEF Behind
    <2>2. /\ Cleared + Len(stream) + F \in Nat
          /\ Cleared + Len(stream) + Len(inflight') = (Cleared + Len(stream) + F) + L
      BY <1>2, <1>3, <1>4, <2>1
    <2>3. QED  BY <1>2, <2>1, <2>2, RoomForMore
  <1>8. stream' = stream /\ msg' = msg /\ Cleared' = Cleared /\ Len(sent') = N + 1
    BY <1>1, <1>2 DEF Cleared
  <1>9. QED  BY <1>5, <1>6, <1>7, <1>8 DEF Behind

LEMMA DeliverBehind ==
    ASSUME IInv, Behind, Deliver PROVE Behind'
  <1> DEFINE N == Len(sent)  L == Len(stream)  F == Len(inflight)
  <1>1. PICK n \in 1..F : /\ stream' = stream \o SubSeq(inflight, 1, n)
                          /\ inflight' = SubSeq(inflight, n + 1, F)
    BY DEF Deliver
  <1>2. UNCHANGED <<sent, pc, msg, sum>> /\ L \in Nat /\ F \in Nat
    BY Lengths DEF Deliver
  <1>3. /\ Len(inflight') = F - n
        /\ \A i \in 1..(F - n) : inflight'[i] = inflight[n + i]
    BY <1>1, <1>2, Lengths, RestPiece
  <1>4. /\ Len(stream') = L + n
        /\ \A i \in 1..(L + n) : stream'[i] =
             IF i <= L THEN stream[i] ELSE inflight[i - L]
    <2>1. \A i \in 1..n : inflight[i] \in BytesOf(sent)
      BY <1>2, Lengths, ElementOfSeq
    <2> DEFINE q == SubSeq(inflight, 1, n)
    <2>2. q \in Seq(BytesOf(sent)) /\ Len(q) = n /\ \A i \in 1..n : q[i] = inflight[i]
      BY <1>2, <2>1, Lengths, SubSeqProperties
    <2>3. stream \in Seq(BytesOf(sent)) /\ stream' = stream \o q
      BY <1>1, Lengths
    <2> HIDE DEF q
    <2>4. /\ Len(stream') = L + n
          /\ \A i \in 1..(L + n) : stream'[i] = IF i <= L THEN stream[i] ELSE q[i - L]
      BY <2>2, <2>3, Concatenated, Zenon
    <2>5. \A i \in 1..(L + n) : ~(i <= L) => i - L \in 1..n
      BY <1>2
    <2>6. QED  BY <2>2, <2>4, <2>5
  <1>5. ASSUME NEW i \in 1..Len(inflight')
        PROVE  Room(N, inflight'[i], Len(inflight') - i)
    <2> DEFINE j == n + i
    <2>1. j \in 1..F /\ Len(inflight') - i = F - j /\ inflight'[i] = inflight[j]
      BY <1>2, <1>3, <1>5
    <2>2. Room(N, inflight[j], F - j)
      BY <2>1 DEF Behind
    <2>3. QED  BY <2>1, <2>2
  <1>6. ASSUME NEW i \in 1..Len(stream')
        PROVE  Room(N, stream'[i], Len(stream') - i + Len(inflight'))
    <2>1. CASE i <= L
      <3>1. /\ i \in 1..L /\ stream'[i] = stream[i]
            /\ Len(stream') - i + Len(inflight') = L - i + F
        BY <1>2, <1>3, <1>4, <1>6, <2>1
      <3>2. Room(N, stream[i], L - i + F)
        BY <3>1 DEF Behind
      <3>3. QED  BY <3>1, <3>2
    <2>2. CASE ~(i <= L)
      <3> DEFINE j == i - L
      <3>1. /\ j \in 1..F /\ stream'[i] = inflight[j]
            /\ Len(stream') - i + Len(inflight') = F - j
        BY <1>2, <1>3, <1>4, <1>6, <2>2
      <3>2. Room(N, inflight[j], F - j)
        BY <3>1 DEF Behind
      <3>3. QED  BY <3>1, <3>2
    <2>3. QED  BY <2>1, <2>2
  <1>7. /\ msg' = msg /\ Cleared' = Cleared /\ Len(sent') = N
        /\ Cleared + Len(stream') + Len(inflight') = Cleared + L + F
    BY <1>2, <1>3, <1>4, Located DEF Cleared
  <1>8. QED  BY <1>5, <1>6, <1>7 DEF Behind

\* the first n bytes of the stream are read or flushed
LEMMA FewerBehind ==
    ASSUME IInv, Behind, NEW n \in Nat, n <= Len(stream),
           stream' = SubSeq(stream, n + 1, Len(stream)), UNCHANGED <<sent, inflight>>,
           msg' # <<>> =>
             Room(Len(sent), msg'[1], Cleared' + Len(stream') + Len(inflight))
    PROVE  Behind'
  <1>1. /\ Len(stream') = Len(stream) - n /\ Len(stream) \in Nat
        /\ \A i \in 1..(Len(stream) - n) : stream'[i] = stream[n + i]
    BY Lengths, RestPiece
  <1>2. ASSUME NEW i \in 1..Len(stream')
        PROVE  Room(Len(sent), stream'[i], Len(stream') - i + Len(inflight))
    <2> DEFINE j == n + i
    <2>1. /\ j \in 1..Len(stream) /\ stream'[i] = stream[j]
          /\ Len(stream') - i + Len(inflight) = Len(stream) - j + Len(inflight)
      BY <1>1, <1>2, Lengths
    <2>2. Room(Len(sent), stream[j], Len(stream) - j + Len(inflight))
      BY <2>1 DEF Behind
    <2>3. QED  BY <2>1, <2>2
  <1>3. QED  BY <1>2 DEF Behind

LEMMA ReadBehind ==
    ASSUME IInv, Behind, Read PROVE Behind'
  <1>1. /\ pc = "receive" /\ stream # <<>> /\ msg' = Got
        /\ pc' \in {"receive", "reply"} /\ UNCHANGED <<sent, inflight>>
        /\ stream' = SubSeq(stream, Taken + 1, Len(stream))
    BY ReadReading DEF Read
  <1>2. /\ Taken \in Nat /\ Taken <= Len(stream)
        /\ \A i \in 1..Len(msg) : Got[i] = msg[i]
        /\ \A i \in 1..Taken : Got[Len(msg) + i] = stream[i]
    BY <1>1, GotType
  <1>3. 0 < Taken
    <2>1. 0 < toRead
      BY <1>1 DEF IInv, TypeOK, ReadingInv, Reading
    <2>2. QED  BY <1>1, <2>1, Lengths DEF Taken
  <1>4. Len(stream') = Len(stream) - Taken /\ Cleared' = 0 /\ Cleared = 0
    BY <1>1, <1>2, Lengths, RestPiece DEF Cleared
  <1>5. Room(Len(sent), Got[1], Cleared' + Len(stream') + Len(inflight))
    <2>1. CASE msg # <<>>
      <3>1. 1 \in 1..Len(msg) /\ Got[1] = msg[1]
        BY <1>2, <2>1, Lengths
      <3>2. Room(Len(sent), msg[1], 0 + Len(stream) + Len(inflight)) /\ msg[1] \in Places
        BY <1>4, <2>1, Located DEF Behind
      <3>3. /\ Cleared' + Len(stream') + Len(inflight) \in Nat
            /\ 0 + Len(stream) + Len(inflight) \in Nat /\ Len(sent) \in Nat
            /\ Cleared' + Len(stream') + Len(inflight)
                 <= 0 + Len(stream) + Len(inflight)
        BY <1>2, <1>4, Lengths
      <3>4. QED  BY <3>1, <3>2, <3>3, RoomForFewer
    <2>2. CASE msg = <<>>
      <3>1. Len(msg) = 0 /\ 1 \in 1..Taken /\ 1 \in 1..Len(stream)
        BY <1>2, <1>3, <2>2, Lengths
      <3>2. Got[1] = stream[1]
        BY <1>2, <3>1
      <3>3. Room(Len(sent), stream[1], Len(stream) - 1 + Len(inflight))
            /\ stream[1] \in Places
        BY <3>1, Located DEF Behind
      <3>4. /\ Cleared' + Len(stream') + Len(inflight) \in Nat
            /\ Len(stream) - 1 + Len(inflight) \in Nat /\ Len(sent) \in Nat
            /\ Cleared' + Len(stream') + Len(inflight)
                 <= Len(stream) - 1 + Len(inflight)
        BY <1>2, <1>3, <1>4, Lengths
      <3>5. QED  BY <3>2, <3>3, <3>4, RoomForFewer
    <2>3. QED  BY <2>1, <2>2
  <1>6. QED  BY <1>1, <1>2, <1>5, FewerBehind

\* the message ends, with the connection or without
LEMMA LoopBehind ==
    ASSUME IInv, Behind, Receiving, UNCHANGED sent,
           \/ UNCHANGED <<stream, inflight>>
           \/ stream' = <<>> /\ inflight' = <<>>
    PROVE  Behind'
  <1>1. msg' = <<>>
    BY DEF Receiving
  <1>2. CASE UNCHANGED <<stream, inflight>>
    BY <1>1, <1>2 DEF Behind
  <1>3. CASE stream' = <<>> /\ inflight' = <<>>
    <2>1. Len(stream') = 0 /\ Len(inflight') = 0
      BY <1>3, EmptySeq
    <2>2. QED  BY <1>1, <2>1 DEF Behind
  <1>4. QED  BY <1>2, <1>3

LEMMA FlushBehind ==
    ASSUME IInv, Behind, FlushSome PROVE Behind'
  <1>1. /\ pc = "flush" /\ UNCHANGED <<sent, inflight>>
        /\ stream' = SubSeq(stream, Flushed + 1, Len(stream))
        /\ \/ msg' = <<>>
           \/ msg' = msg /\ pc' = pc /\ sum' = sum + Flushed
    BY DEF FlushSome, Receiving
  <1>2. Flushed \in Nat /\ Flushed <= Len(stream)
    BY FlushType
  <1>3. Len(stream') = Len(stream) - Flushed
    BY <1>1, <1>2, Lengths, RestPiece
  <1>4. ASSUME msg' # <<>>
        PROVE  Room(Len(sent), msg'[1], Cleared' + Len(stream') + Len(inflight))
    <2>1. msg' = msg /\ msg # <<>> /\ Cleared' = sum + Flushed /\ Cleared = sum
      BY <1>1, <1>4 DEF Cleared
    <2>2. Cleared' + Len(stream') + Len(inflight)
            = Cleared + Len(stream) + Len(inflight)
      BY <1>2, <1>3, <2>1, Lengths
    <2>3. QED  BY <2>1, <2>2 DEF Behind
  <1>5. QED  BY <1>1, <1>2, <1>4, FewerBehind

LEMMA StepBehind == IInv /\ Behind /\ [Next]_vars => Behind'
  <1> SUFFICES ASSUME IInv, Behind, [Next]_vars PROVE Behind'
    OBVIOUS
  <1>1. CASE UNCHANGED vars
    BY <1>1 DEF vars, Behind, Cleared
  <1>2. CASE \E r \in Requests : SendRequest(r)
    BY <1>2, SendRequestBehind
  <1>3. CASE Deliver
    BY <1>3, DeliverBehind
  <1>4. CASE Read
    BY <1>4, ReadBehind
  <1>5. CASE ReadTooMany \/ ByteTimeout \/ ReplyFails \/ Answer \/ Refuse
    <2>1. /\ Receiving /\ UNCHANGED sent
          /\ \/ UNCHANGED <<stream, inflight>>
             \/ stream' = <<>> /\ inflight' = <<>>
      BY <1>5, Zenon DEF ReadTooMany, ByteTimeout, ReplyFails, CloseConnection,
                         Answer, Refuse
    <2>2. QED  BY <2>1, LoopBehind
  <1>6. CASE Reject
    BY <1>6 DEF Reject, Behind, Cleared
  <1>7. CASE WakeUp
    <2>1. Cleared' = 0 /\ Cleared = 0 /\ UNCHANGED <<sent, inflight, stream, msg>>
      BY <1>7 DEF WakeUp, Cleared
    <2>2. QED  BY <2>1 DEF Behind
  <1>8. CASE FlushSome
    BY <1>8, FlushBehind
  <1>9. QED
    BY <1>1, <1>2, <1>3, <1>4, <1>5, <1>6, <1>7, <1>8 DEF Next, ServerStep

LEMMA BehindInvariant == Spec => []Behind
  BY InitBehind, StepBehind, Invariant, PTL DEF Spec

LEMMA OnlyFlushRecovers ==
    ASSUME [Next]_vars, recovery' # recovery
    PROVE  FlushSome /\ ~Counts(Flushed)
  <1>1. CASE FlushSome
    BY <1>1 DEF FlushSome
  <1>2. CASE ~FlushSome
    BY <1>2, Zenon DEF Next, vars, SendRequest, Deliver, ServerStep, Read, ReadTooMany,
       ByteTimeout, ReplyFails, Answer, Refuse, Reject, WakeUp
  <1>3. QED  BY <1>1, <1>2

(* A flush overwrites error_recovery in no other case than that the client has  *)
(* sent more than SumMax bytes from the rejected request on: never behind one   *)
(* that waits for the exception, and not before that many requests of the       *)
(* others (_modbus_tcp_flush).                                                  *)
THEOREM RecoveryIsKept == Spec => RecoveryKept
  <1>1. ASSUME IInv, Behind, [Next]_vars, recovery' # recovery
        PROVE  (Len(sent) - Number + 1) * MaxAdu > SumMax
    <2> DEFINE x == (Len(sent) - Number + 1) * MaxAdu
    <2>1. pc = "flush" /\ ~(sum + Flushed <= SumMax)
      BY <1>1, OnlyFlushRecovers DEF FlushSome, Counts
    <2>2. HeaderLength + 1 <= Len(msg)
      BY <1>1, <2>1 DEF IInv, ReadingInv, Reading
    <2>3. msg # <<>>
      BY <1>1, <2>2, Lengths, Numbers
    <2>4. sum + Len(stream) + Len(inflight) < x
      BY <1>1, <2>1, <2>3 DEF Behind, Room, Cleared, Number
    <2>5. x \in Int
      BY <1>1, <2>3, Located, Lengths, Numbers DEF Number, Places
    <2>6. Flushed \in Nat /\ Flushed <= Len(stream)
      BY <1>1, OnlyFlushRecovers, FlushType
    <2> HIDE DEF x
    <2>7. SumMax < x
      BY <1>1, <2>1, <2>4, <2>5, <2>6, Lengths, Numbers
    <2>8. QED  BY <2>5, <2>7, Numbers DEF x
  <1>2. QED  BY <1>1, Invariant, BehindInvariant, PTL DEF RecoveryKept, Spec
=============================================================================
