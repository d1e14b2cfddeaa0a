--------------------------- MODULE ModbusPduProofs ---------------------------
(* Types, and the lengths of messages, of ModbusPdu for every size of the     *)
(* tables, every address and every number of values; and the refinement of    *)
(* RegisterService.                                                           *)
EXTENDS ModbusPdu, TLAPS

(* The limits of the API are numbers; the provers fare better without them.   *)
LEMMA Limits ==
    MODBUS_MAX_READ_BITS \in Nat /\ MODBUS_MAX_WRITE_BITS \in Nat
BY DEF MODBUS_MAX_READ_BITS, MODBUS_MAX_WRITE_BITS

LEMMA BeyondLimit ==
    ASSUME NEW n \in Nat, NEW limit \in Nat, n > limit
    PROVE  n \notin 1..limit
OBVIOUS

LEMMA WithinLimit ==
    ASSUME NEW limit \in Nat, NEW n \in 1..limit
    PROVE  n <= limit
OBVIOUS

(* The bytes of nb bits, as src/modbus.c rounds them up: a legal number fits  *)
(* the byte count.                                                            *)
LEMMA BytesOfBitsBound ==
    ASSUME NEW nb \in Nat, nb <= MODBUS_MAX_READ_BITS
    PROVE  BytesOfBits(nb) \in 0..250 /\ BytesOfBits(nb) % 256 = BytesOfBits(nb)
BY DEF BytesOfBits, MODBUS_MAX_READ_BITS

(* The same for the number of bits a write may name.                          *)
LEMMA WriteBitsBound ==
    ASSUME NEW nb \in Nat, ~(nb > MODBUS_MAX_WRITE_BITS)
    PROVE  /\ BytesOfBits(nb) \in Nat /\ BytesOfBits(nb) <= 246
           /\ BytesOfBits(nb) % 256 = BytesOfBits(nb)
BY DEF BytesOfBits, MODBUS_MAX_WRITE_BITS

(* What is put into a message are bytes, whatever it is taken from.           *)
LEMMA PutWordsType ==
    ASSUME NEW a, NEW from, NEW n \in Nat
    PROVE  PutWords(a, from, n) \in [0..(2 * n - 1) -> Byte]
BY DEF PutWords, Hi, Lo, Byte

LEMMA PutBitsType ==
    ASSUME NEW a, NEW from, NEW n \in Nat
    PROVE  PutBits(a, from, n) \in [0..(BytesOfBits(n) - 1) -> Byte]
BY DEF PutBits, Byte

(* What is taken out of a message has the width of its table.                 *)
LEMMA JoinType == ASSUME NEW h, NEW l PROVE Join(h, l) \in Word
BY DEF Join, Word

(* Registers and bits are read back with the width of their table.            *)
LEMMA GetWordsType ==
    ASSUME NEW data, NEW n \in Nat
    PROVE  GetWords(data, n) \in [0..(n - 1) -> Word]
BY JoinType DEF GetWords

(* Each bit is one bit of one byte.                                           *)
LEMMA GetBitsType ==
    ASSUME NEW data, NEW n \in Nat
    PROVE  GetBits(data, n) \in [0..(n - 1) -> BOOLEAN]
BY DEF GetBits

(* A write keeps the tables as wide and as long as they are.                  *)
LEMMA StoreBitsType ==
    ASSUME mapping \in Mappings, NEW addr \in Nat, NEW n \in Nat,
           NEW v \in [0..(n - 1) -> BOOLEAN]
    PROVE  Store("bits", addr, n, v) \in Mappings
<1> DEFINE first == MappingAddress("bits", addr)
           new == [i \in DOMAIN mapping["bits"] |->
                     IF i \in first..(first + n - 1) THEN v[i - first]
                     ELSE mapping["bits"][i]]
<1>1. first \in Int
  BY ConstantsAssumption DEF MappingAddress, Tables
<1>2. mapping["bits"] \in [0..(Size["bits"] - 1) -> BOOLEAN]
  BY DEF Mappings
<1>3. Size["bits"] \in Nat
  BY ConstantsAssumption DEF Tables
<1>4. \A i \in first..(first + n - 1) : i - first \in 0..(n - 1)
  BY <1>1
<1>5. new \in [0..(Size["bits"] - 1) -> BOOLEAN]
  BY <1>2, <1>4, Zenon
<1>6. Store("bits", addr, n, v) = [mapping EXCEPT !["bits"] = new]
  BY DEF Store
<1> QED
  BY <1>5, <1>6 DEF Mappings

(* The same for a table of registers.                                         *)
LEMMA StoreRegistersType ==
    ASSUME mapping \in Mappings, NEW addr \in Nat, NEW n \in Nat,
           NEW v \in [0..(n - 1) -> Word]
    PROVE  Store("registers", addr, n, v) \in Mappings
<1> DEFINE first == MappingAddress("registers", addr)
           new == [i \in DOMAIN mapping["registers"] |->
                     IF i \in first..(first + n - 1) THEN v[i - first]
                     ELSE mapping["registers"][i]]
<1>1. first \in Int
  BY ConstantsAssumption DEF MappingAddress, Tables
<1>2. mapping["registers"] \in [0..(Size["registers"] - 1) -> Word]
  BY DEF Mappings
<1>4. \A i \in first..(first + n - 1) : i - first \in 0..(n - 1)
  BY <1>1
<1>5. new \in [0..(Size["registers"] - 1) -> Word]
  BY <1>2, <1>4, Zenon
<1>6. Store("registers", addr, n, v) = [mapping EXCEPT !["registers"] = new]
  BY DEF Store
<1> QED
  BY <1>5, <1>6 DEF Mappings

-----------------------------------------------------------------------------
(* A message as it is built, before the checksum: the receiver will work out  *)
(* the length of it, which is no longer than an ADU.                          *)
WholeRequest(m) ==
    /\ IsMessage(m)
    /\ IndicationLength(m) = m.length + ChecksumLength
    /\ IndicationLength(m) <= MaxAduLength

WholeReply(m) ==
    /\ IsMessage(m)
    /\ ConfirmationLength(m) = m.length + ChecksumLength
    /\ ConfirmationLength(m) <= MaxAduLength

IInv == TypeOK /\ FramesWhole

(* A message with no more bytes of data than an ADU has room for.             *)
LEMMA FewBytes ==
    ASSUME NEW n \in Nat, n <= 251, NEW m \in Message(n)
    PROVE  IsMessage(m)
<1>1. MAX_MESSAGE_LENGTH \in Nat /\ 251 <= MAX_MESSAGE_LENGTH
  BY DEF MAX_MESSAGE_LENGTH
<1>2. n \in 0..MAX_MESSAGE_LENGTH
  BY <1>1
<1> QED
  BY <1>2 DEF IsMessage

(* A message with its length filled in.                                       *)
LEMMA FilledLength ==
    ASSUME NEW k \in Nat, NEW r \in Message(k), NEW length \in Nat
    PROVE  [r EXCEPT !.length = length] \in Message(k)
BY DEF Message

(* send_msg_pre adds the checksum and leaves the fields alone.                *)
LEMMA ChecksumKeeps ==
    ASSUME backend \in {"tcp", "rtu"}, NEW m, IsMessage(m)
    PROVE  /\ IsMessage(WithChecksum(m))
           /\ WithChecksum(m).length = m.length + ChecksumLength
           /\ IndicationLength(WithChecksum(m)) = IndicationLength(m)
           /\ ConfirmationLength(WithChecksum(m)) = ConfirmationLength(m)
<1>1. PICK n \in 0..MAX_MESSAGE_LENGTH : m \in Message(n)
  BY DEF IsMessage
<1>2. ChecksumLength \in Nat
  BY DEF ChecksumLength
<1>3. /\ WithChecksum(m) \in Message(n)
      /\ WithChecksum(m).length = m.length + ChecksumLength
      /\ WithChecksum(m).fn = m.fn /\ WithChecksum(m).count = m.count
  <2> DEFINE new == WithChecksum(m)
             sum == m.length + ChecksumLength
  <2>1. m.length \in Nat
    BY <1>1 DEF Message
  <2>2. sum \in Nat
    BY <1>2, <2>1
  <2>3. new = [m EXCEPT !.length = sum]
    BY DEF WithChecksum
  <2> HIDE DEF new, sum
  <2>4. n \in Nat
    BY DEF MAX_MESSAGE_LENGTH
  <2>5. new \in Message(n)
    BY <1>1, <2>2, <2>3, <2>4, FilledLength, Zenon
  <2>6. new.length = sum /\ new.fn = m.fn /\ new.count = m.count
    BY <1>1, <2>3 DEF Message
  <2> QED
    BY <2>5, <2>6 DEF new, sum
<1>4. IsMessage(WithChecksum(m))
  BY <1>1, <1>3 DEF IsMessage
<1>5. IndicationLength(WithChecksum(m)) = IndicationLength(m)
  BY <1>3 DEF IndicationLength, DataLengthOfIndication
<1>6. ConfirmationLength(WithChecksum(m)) = ConfirmationLength(m)
  BY <1>3 DEF ConfirmationLength, DataLengthOfConfirmation
<1> QED
  BY <1>3, <1>4, <1>5, <1>6

(* A call keeps the invariant when the request it sends is whole.             *)
LEMMA RequestStep ==
    ASSUME IInv, NEW c, NEW tooMany, NEW m, Request(c, tooMany, m),
           ~tooMany => WholeRequest(m)
    PROVE  IInv'
<1>1. /\ UNCHANGED <<backend, mapping, rsp, dest>> /\ phase = "idle"
      /\ calls < MaxCalls /\ calls' = calls + 1
  BY DEF Request
<1>2. backend' \in {"tcp", "rtu"} /\ mapping' \in Mappings
  BY <1>1 DEF IInv, TypeOK, Mappings
<1>3. calls' \in 0..MaxCalls
  BY <1>1, ConstantsAssumption DEF IInv, TypeOK
<1>4. CASE tooMany /\ UNCHANGED <<phase, req>>
  <2>1. phase' = "idle"
    BY <1>1, <1>4
  <2> QED
    BY <1>2, <1>3, <2>1 DEF IInv, TypeOK, FramesWhole
<1>5. CASE ~tooMany /\ phase' = "indication" /\ req' = WithChecksum(m)
  <2>1. /\ IsMessage(req')
        /\ IndicationLength(req') = req'.length
        /\ req'.length <= MaxAduLength
    BY <1>5, ChecksumKeeps DEF WholeRequest, IInv, TypeOK
  <2>2. TypeOK'
    BY <1>2, <1>3, <1>5, <2>1 DEF TypeOK, IsMessage, Message
  <2>3. /\ IndicationLength(req)' = IndicationLength(req')
        /\ MaxAduLength' = MaxAduLength
    BY <1>1 DEF IndicationLength, DataLengthOfIndication, HeaderLength,
                ChecksumLength, MaxAduLength
  <2>4. FramesWhole'
    BY <1>5, <2>1, <2>3 DEF FramesWhole
  <2> QED
    BY <2>2, <2>4 DEF IInv
<1> QED
  BY <1>4, <1>5 DEF Request

-----------------------------------------------------------------------------
(* The requests of the library.                                               *)

(* A message without data.                                                    *)
LEMMA NoDataType == NoData \in [0..(0 - 1) -> Byte]
<1>1. 0..(0 - 1) = {}
  OBVIOUS
<1> QED
  BY <1>1 DEF NoData

(* build_request_basis: the fields and the length it presets.                 *)
LEMMA BasisType ==
    ASSUME NEW fn \in Nat, NEW slave \in Nat, NEW addr \in Nat, NEW nb \in Nat,
           PresetReqLength \in Nat
    PROVE  RequestBasis(fn, slave, addr, nb) \in Message(0)
BY NoDataType DEF RequestBasis, Message

(* A message with its fields filled in.                                       *)
LEMMA Filled ==
    ASSUME NEW k \in Nat, NEW r \in Message(k), NEW n \in Nat,
           NEW count \in Nat, count <= 255, NEW data \in [0..(n - 1) -> Byte],
           NEW length \in Nat
    PROVE  [r EXCEPT !.count = count, !.data = data, !.length = length]
               \in Message(n)
<1> count \in 0..255
  OBVIOUS
<1> QED
  BY DEF Message

(* A request as long as its function code and byte count announce.            *)
LEMMA RequestOfLength ==
    ASSUME backend \in {"tcp", "rtu"}, NEW n \in Nat, n <= 251,
           NEW m \in Message(n), NEW meta \in Nat, NEW more \in Nat,
           MetaLengthOfIndication(m.fn) = meta,
           DataLengthOfIndication(m) = more,
           meta + more <= 252, m.length = PresetReqLength - 4 + meta + more
    PROVE  WholeRequest(m)
<1>1. IsMessage(m)
  BY FewBytes
<1>2. CASE backend = "tcp"
  <2>1. HeaderLength = 7 /\ ChecksumLength = 0 /\ PresetReqLength = 12
        /\ MaxAduLength = 260
    BY <1>2 DEF HeaderLength, ChecksumLength, PresetReqLength, MaxAduLength
  <2>2. IndicationLength(m) = 8 + meta + more
    BY <2>1 DEF IndicationLength
  <2> QED
    BY <1>1, <2>1, <2>2 DEF WholeRequest
<1>3. CASE backend = "rtu"
  <2>1. HeaderLength = 1 /\ ChecksumLength = 2 /\ PresetReqLength = 6
        /\ MaxAduLength = 256
    BY <1>3 DEF HeaderLength, ChecksumLength, PresetReqLength, MaxAduLength
  <2>2. IndicationLength(m) = 4 + meta + more
    BY <2>1 DEF IndicationLength
  <2> QED
    BY <1>1, <2>1, <2>2 DEF WholeRequest
<1> QED
  BY <1>2, <1>3

(* The presets of both backends leave room for the fields.                    *)
LEMMA PresetLengths ==
    ASSUME backend \in {"tcp", "rtu"}
    PROVE  /\ PresetReqLength \in Nat /\ PresetReqLength >= 4
           /\ PresetRspLength \in Nat
BY DEF PresetReqLength, PresetRspLength

(* What follows the function code of a request.                               *)
LEMMA Metas ==
    /\ \A fn \in Nat : fn <= 6 => MetaLengthOfIndication(fn) = 4
    /\ \A fn \in WriteMultipleFns : MetaLengthOfIndication(fn) = 5
    /\ MetaLengthOfIndication(MODBUS_FC_MASK_WRITE_REGISTER) = 6
    /\ MetaLengthOfIndication(MODBUS_FC_WRITE_AND_READ_REGISTERS) = 9
    /\ MetaLengthOfIndication(MODBUS_FC_REPORT_SLAVE_ID) = 0
BY DEF MetaLengthOfIndication, WriteMultipleFns,
       MODBUS_FC_WRITE_SINGLE_REGISTER, MODBUS_FC_WRITE_MULTIPLE_COILS,
       MODBUS_FC_WRITE_MULTIPLE_REGISTERS,
       MODBUS_FC_MASK_WRITE_REGISTER, MODBUS_FC_WRITE_AND_READ_REGISTERS,
       MODBUS_FC_REPORT_SLAVE_ID

(* The bytes a byte count announces in a request.                             *)
LEMMA Datas ==
    ASSUME NEW m
    PROVE  /\ m.fn \in WriteMultipleFns => DataLengthOfIndication(m) = m.count
           /\ m.fn = MODBUS_FC_WRITE_AND_READ_REGISTERS =>
                  DataLengthOfIndication(m) = m.count
           /\ m.fn \in 1..6 \cup {17, 22} => DataLengthOfIndication(m) = 0
BY DEF DataLengthOfIndication, WriteMultipleFns,
       MODBUS_FC_WRITE_MULTIPLE_COILS, MODBUS_FC_WRITE_MULTIPLE_REGISTERS,
       MODBUS_FC_WRITE_AND_READ_REGISTERS

(* A message with its data filled in.                                         *)
LEMMA FilledData ==
    ASSUME NEW k \in Nat, NEW r \in Message(k), NEW n \in Nat,
           NEW data \in [0..(n - 1) -> Byte]
    PROVE  [r EXCEPT !.data = data] \in Message(n)
BY DEF Message

(* Function codes 1 to 6: four bytes after the function code.                 *)
LEMMA ShortRequest ==
    ASSUME backend \in {"tcp", "rtu"}, NEW k \in Nat, k <= 251,
           NEW m \in Message(k),
           m.fn \in 1..6, m.length = PresetReqLength
    PROVE  WholeRequest(m)
<1>1. MetaLengthOfIndication(m.fn) = 4 /\ DataLengthOfIndication(m) = 0
  BY Metas, Datas
<1>2. PresetReqLength = PresetReqLength - 4 + 4 + 0
  BY PresetLengths
<1> QED
  BY <1>1, <1>2, RequestOfLength

(* Function codes 1 to 4: an address and a number of values.                  *)
LEMMA ReadRequestWhole ==
    ASSUME backend \in {"tcp", "rtu"}, NEW fn \in Nat, fn \in 1..4,
           NEW slave \in Nat, NEW addr \in Nat, NEW nb \in Nat
    PROVE  WholeRequest(RequestBasis(fn, slave, addr, nb))
<1> DEFINE r == RequestBasis(fn, slave, addr, nb)
<1>2. r \in Message(0) /\ r.fn = fn /\ r.length = PresetReqLength
  <2>1. PresetReqLength \in Nat
    BY PresetLengths
  <2>2. r \in Message(0)
    BY <2>1, BasisType, Zenon
  <2>3. r.fn = fn /\ r.length = PresetReqLength
    BY DEF RequestBasis
  <2> QED
    BY <2>2, <2>3
<1> HIDE DEF r
<1>3. WholeRequest(r)
  BY <1>2, ShortRequest
<1> QED
  BY <1>3 DEF r

(* Function codes 5 and 6: an address and a value.                            *)
LEMMA WriteSingleWhole ==
    ASSUME backend \in {"tcp", "rtu"}, NEW fn \in Nat, fn \in WriteSingleFns,
           NEW slave \in Nat, NEW addr \in Nat, NEW nb \in Nat,
           NEW data \in [0..1 -> Byte]
    PROVE  WholeRequest(
               [RequestBasis(fn, slave, addr, nb) EXCEPT !.data = data])
<1> DEFINE r == RequestBasis(fn, slave, addr, nb)
           m == [r EXCEPT !.data = data]
<1>1. fn \in Nat /\ fn \in 1..6
  BY DEF WriteSingleFns, MODBUS_FC_WRITE_SINGLE_COIL,
         MODBUS_FC_WRITE_SINGLE_REGISTER
<1>2. r \in Message(0) /\ r.fn = fn /\ r.length = PresetReqLength
  <2>1. PresetReqLength \in Nat
    BY PresetLengths
  <2>2. r \in Message(0)
    BY <2>1, BasisType, Zenon
  <2>3. r.fn = fn /\ r.length = PresetReqLength
    BY DEF RequestBasis
  <2> QED
    BY <2>2, <2>3
<1>3. data \in [0..(2 - 1) -> Byte]
  OBVIOUS
<1> HIDE DEF r
<1>4. m \in Message(2)
  <2> 2 \in Nat
    OBVIOUS
  <2> QED
    BY <1>2, <1>3, FilledData, Zenon
<1>5. m.fn = r.fn /\ m.length = r.length
  BY <1>2 DEF Message
<1> HIDE DEF m
<1>6. WholeRequest(m)
  BY <1>1, <1>2, <1>4, <1>5, ShortRequest
<1> QED
  BY <1>6 DEF m, r

(* Function codes 15 and 16: the byte count says how many bytes follow.       *)
LEMMA WriteMultipleWhole ==
    ASSUME backend \in {"tcp", "rtu"}, NEW fn \in Nat, fn \in WriteMultipleFns,
           NEW slave \in Nat, NEW addr \in Nat, NEW nb \in Nat,
           NEW n \in Nat, n <= 246,
           NEW data \in [0..(n - 1) -> Byte]
    PROVE  WholeRequest(
               [RequestBasis(fn, slave, addr, nb) EXCEPT
                   !.count = n, !.data = data, !.length = @ + 1 + n])
<1> DEFINE r == RequestBasis(fn, slave, addr, nb)
           len == r.length + 1 + n
           m == [r EXCEPT !.count = n, !.data = data, !.length = len]
<1>1. n <= 255
  OBVIOUS
<1>2. r \in Message(0) /\ r.fn = fn /\ r.length = PresetReqLength
  <2>1. PresetReqLength \in Nat
    BY PresetLengths
  <2>2. r \in Message(0)
    BY <2>1, BasisType, Zenon
  <2>3. r.fn = fn /\ r.length = PresetReqLength
    BY DEF RequestBasis
  <2> QED
    BY <2>2, <2>3
<1>3. len \in Nat /\ len = PresetReqLength - 4 + 5 + n
  BY <1>2, PresetLengths
<1> HIDE DEF r, len
<1>4. m \in Message(n)
  BY <1>1, <1>2, <1>3, Filled, Zenon
<1>5. m.fn = r.fn /\ m.length = len /\ m.count = n
  BY <1>2 DEF Message
<1> HIDE DEF m
<1>6. MetaLengthOfIndication(m.fn) = 5 /\ DataLengthOfIndication(m) = n
  BY <1>2, <1>5, Metas, Datas
<1>7. WholeRequest(m)
  BY <1>3, <1>4, <1>5, <1>6, RequestOfLength
<1> QED
  BY <1>7 DEF m, r, len

(* A message with its data and length filled in.                              *)
LEMMA FilledMask ==
    ASSUME NEW k \in Nat, NEW r \in Message(k), NEW n \in Nat,
           NEW data \in [0..(n - 1) -> Byte], NEW length \in Nat
    PROVE  [r EXCEPT !.data = data, !.length = length] \in Message(n)
BY DEF Message

(* Function code 22: the two masks in the place of nb and behind it.          *)
LEMMA MaskWriteWhole ==
    ASSUME backend \in {"tcp", "rtu"}, NEW slave \in Nat, NEW addr \in Nat,
           NEW nb \in Nat, NEW n \in Nat, n <= 4, NEW data \in [0..(n - 1) -> Byte]
    PROVE  WholeRequest(
               [RequestBasis(MODBUS_FC_MASK_WRITE_REGISTER, slave, addr, nb)
                   EXCEPT !.data = data, !.length = @ - 2 + 4])
<1> DEFINE fn == MODBUS_FC_MASK_WRITE_REGISTER
           r == RequestBasis(fn, slave, addr, nb)
           len == r.length - 2 + 4
           m == [r EXCEPT !.data = data, !.length = len]
<1>1. fn \in Nat
  BY DEF MODBUS_FC_MASK_WRITE_REGISTER
<1> HIDE DEF fn
<1>2. r \in Message(0) /\ r.fn = fn /\ r.length = PresetReqLength
  <2>1. PresetReqLength \in Nat
    BY PresetLengths
  <2>2. r \in Message(0)
    BY <1>1, <2>1, BasisType, Zenon
  <2>3. r.fn = fn /\ r.length = PresetReqLength
    BY DEF RequestBasis
  <2> QED
    BY <2>2, <2>3
<1>3. len \in Nat /\ len = PresetReqLength - 4 + 6 + 0
  BY <1>2, PresetLengths
<1> HIDE DEF r, len
<1>4. m \in Message(n)
  BY <1>2, <1>3, FilledMask, Zenon
<1>5. m.fn = fn /\ m.length = len
  BY <1>2 DEF Message
<1> HIDE DEF m
<1>6. MetaLengthOfIndication(m.fn) = 6 /\ DataLengthOfIndication(m) = 0
  BY <1>5, Metas, Datas DEF fn, MODBUS_FC_MASK_WRITE_REGISTER
<1>7. WholeRequest(m)
  BY <1>3, <1>4, <1>5, <1>6, RequestOfLength
<1> QED
  BY <1>7 DEF m, r, len, fn

(* A message with the fields of a write and its data filled in.               *)
LEMMA FilledWrite ==
    ASSUME NEW k \in Nat, NEW r \in Message(k), NEW n \in Nat,
           NEW waddr \in Nat, NEW wnb \in Nat, n <= 255,
           NEW data \in [0..(n - 1) -> Byte], NEW length \in Nat
    PROVE  [r EXCEPT !.waddr = waddr, !.wnb = wnb, !.count = n,
                     !.data = data, !.length = length] \in Message(n)
<1> n \in 0..255
  OBVIOUS
<1> QED
  BY DEF Message

(* Function code 23: the fields and the values of the write follow.           *)
LEMMA WriteAndReadWhole ==
    ASSUME backend \in {"tcp", "rtu"}, NEW slave \in Nat, NEW addr \in Nat,
           NEW nb \in Nat, NEW waddr \in Nat, NEW wnb \in Nat, NEW n \in Nat,
           n <= 242, NEW data \in [0..(n - 1) -> Byte]
    PROVE  WholeRequest(
               [RequestBasis(MODBUS_FC_WRITE_AND_READ_REGISTERS, slave, addr, nb)
                   EXCEPT !.waddr = waddr, !.wnb = wnb, !.count = n,
                          !.data = data, !.length = @ + 5 + n])
<1> DEFINE fn == MODBUS_FC_WRITE_AND_READ_REGISTERS
           r == RequestBasis(fn, slave, addr, nb)
           len == r.length + 5 + n
           m == [r EXCEPT !.waddr = waddr, !.wnb = wnb, !.count = n,
                          !.data = data, !.length = len]
<1>1. fn \in Nat /\ n <= 255
  BY DEF MODBUS_FC_WRITE_AND_READ_REGISTERS
<1> HIDE DEF fn
<1>2. r \in Message(0) /\ r.fn = fn /\ r.length = PresetReqLength
  <2>1. PresetReqLength \in Nat
    BY PresetLengths
  <2>2. r \in Message(0)
    BY <1>1, <2>1, BasisType, Zenon
  <2>3. r.fn = fn /\ r.length = PresetReqLength
    BY DEF RequestBasis
  <2> QED
    BY <2>2, <2>3
<1>3. len \in Nat /\ len = PresetReqLength - 4 + 9 + n
  BY <1>2, PresetLengths
<1> HIDE DEF r, len
<1>4. m \in Message(n)
  BY <1>1, <1>2, <1>3, FilledWrite, Zenon
<1>5. m.fn = fn /\ m.length = len /\ m.count = n
  BY <1>2 DEF Message
<1> HIDE DEF m
<1>6. MetaLengthOfIndication(m.fn) = 9 /\ DataLengthOfIndication(m) = n
  BY <1>5, Metas, Datas DEF fn
<1>7. WholeRequest(m)
  BY <1>3, <1>4, <1>5, <1>6, RequestOfLength
<1> QED
  BY <1>7 DEF m, r, len, fn

(* Function code 17: nothing follows the function code.                       *)
LEMMA ReportWhole ==
    ASSUME backend \in {"tcp", "rtu"}, NEW slave \in Nat
    PROVE  WholeRequest([RequestBasis(MODBUS_FC_REPORT_SLAVE_ID, slave, 0, 0)
                            EXCEPT !.length = @ - 4])
<1> DEFINE fn == MODBUS_FC_REPORT_SLAVE_ID
           r == RequestBasis(fn, slave, 0, 0)
           len == r.length - 4
           m == [r EXCEPT !.length = len]
<1>1. fn \in Nat /\ fn \in 1..6 \cup {17, 22}
  BY DEF MODBUS_FC_REPORT_SLAVE_ID
<1> HIDE DEF fn
<1>2. r \in Message(0) /\ r.fn = fn /\ r.length = PresetReqLength
  <2>1. PresetReqLength \in Nat
    BY PresetLengths
  <2>2. r \in Message(0)
    BY <1>1, <2>1, BasisType, Zenon
  <2>3. r.fn = fn /\ r.length = PresetReqLength
    BY DEF RequestBasis
  <2> QED
    BY <2>2, <2>3
<1>3. len \in Nat /\ len = PresetReqLength - 4 + 0 + 0
  BY <1>2, PresetLengths
<1> HIDE DEF r, len
<1>4. m \in Message(0)
  BY <1>2, <1>3, FilledLength, Zenon
<1>5. m.fn = fn /\ m.length = len
  BY <1>2 DEF Message
<1> HIDE DEF m
<1>6. MetaLengthOfIndication(m.fn) = 0 /\ DataLengthOfIndication(m) = 0
  BY <1>1, <1>5, Metas, Datas DEF fn
<1>7. WholeRequest(m)
  BY <1>3, <1>4, <1>5, <1>6, RequestOfLength
<1> QED
  BY <1>7 DEF m, r, len, fn

-----------------------------------------------------------------------------
(* The replies of the library.                                                *)

(* A reply as long as its function code and byte count announce.              *)
LEMMA ReplyOfLength ==
    ASSUME backend \in {"tcp", "rtu"}, NEW n \in Nat, n <= 251,
           NEW m \in Message(n), NEW meta \in Nat, NEW more \in Nat,
           MetaLengthOfConfirmation(m.fn) = meta,
           DataLengthOfConfirmation(m) = more,
           meta + more <= 252, m.length = PresetRspLength + meta + more
    PROVE  WholeReply(m)
<1>1. IsMessage(m)
  BY FewBytes
<1>2. CASE backend = "tcp"
  <2>1. HeaderLength = 7 /\ ChecksumLength = 0 /\ PresetRspLength = 8
        /\ MaxAduLength = 260
    BY <1>2 DEF HeaderLength, ChecksumLength, PresetRspLength, MaxAduLength
  <2>2. ConfirmationLength(m) = 8 + meta + more
    BY <2>1 DEF ConfirmationLength
  <2> QED
    BY <1>1, <2>1, <2>2 DEF WholeReply
<1>3. CASE backend = "rtu"
  <2>1. HeaderLength = 1 /\ ChecksumLength = 2 /\ PresetRspLength = 2
        /\ MaxAduLength = 256
    BY <1>3 DEF HeaderLength, ChecksumLength, PresetRspLength, MaxAduLength
  <2>2. ConfirmationLength(m) = 4 + meta + more
    BY <2>1 DEF ConfirmationLength
  <2> QED
    BY <1>1, <2>1, <2>2 DEF WholeReply
<1> QED
  BY <1>2, <1>3

(* What follows the function code of a response.                              *)
LEMMA ConfirmationMetas ==
    /\ \A fn \in Nat : fn <= 4 => MetaLengthOfConfirmation(fn) = 1
    /\ \A fn \in {17, 23} : MetaLengthOfConfirmation(fn) = 1
    /\ \A fn \in Nat : fn > 128 => MetaLengthOfConfirmation(fn) = 1
    /\ \A fn \in {5, 6, 15, 16} : MetaLengthOfConfirmation(fn) = 4
    /\ MetaLengthOfConfirmation(22) = 6
BY DEF MetaLengthOfConfirmation, WriteMultipleFns, WriteSingleFns,
       MODBUS_FC_WRITE_SINGLE_COIL, MODBUS_FC_WRITE_SINGLE_REGISTER,
       MODBUS_FC_WRITE_MULTIPLE_COILS, MODBUS_FC_WRITE_MULTIPLE_REGISTERS,
       MODBUS_FC_MASK_WRITE_REGISTER

(* The bytes a byte count announces in a response.                            *)
LEMMA ConfirmationDatas ==
    ASSUME NEW m, m.fn \in Nat
    PROVE  /\ m.fn <= 4 => DataLengthOfConfirmation(m) = m.count
           /\ m.fn \in {17, 23} => DataLengthOfConfirmation(m) = m.count
           /\ m.fn > 128 => DataLengthOfConfirmation(m) = 0
           /\ m.fn \in {5, 6, 15, 16, 22} => DataLengthOfConfirmation(m) = 0
BY DEF DataLengthOfConfirmation, MODBUS_FC_READ_INPUT_REGISTERS,
       MODBUS_FC_REPORT_SLAVE_ID, MODBUS_FC_WRITE_AND_READ_REGISTERS

(* build_response_basis: slave and function code, nothing else.               *)
LEMMA ResponseBasisType ==
    ASSUME backend \in {"tcp", "rtu"}, IsMessage(req), NEW fn \in Nat
    PROVE  ResponseBasis(fn) \in Message(0)
<1> DEFINE r == RequestBasis(fn, req.slave, 0, 0)
<1>1. req.slave \in Nat
  BY DEF IsMessage, Message
<1>2. r \in Message(0)
  <2>1. PresetReqLength \in Nat /\ 0 \in Nat
    BY PresetLengths
  <2> QED
    BY <1>1, <2>1, BasisType, Zenon
<1>3. PresetRspLength \in Nat
  BY PresetLengths
<1>4. ResponseBasis(fn) = [r EXCEPT !.length = PresetRspLength]
  BY DEF ResponseBasis
<1> HIDE DEF r
<1>5. 0 \in Nat
  OBVIOUS
<1> QED
  BY <1>2, <1>3, <1>4, <1>5, FilledLength, Zenon

(* A message with a code filled in.                                           *)
LEMMA FilledCode ==
    ASSUME NEW k \in Nat, NEW r \in Message(k), NEW code \in Nat, code <= 255,
           NEW length \in Nat
    PROVE  [r EXCEPT !.count = code, !.length = length] \in Message(k)
<1> code \in 0..255
  OBVIOUS
<1> QED
  BY DEF Message

(* An exception: the code of it follows the function code.                    *)
LEMMA ExceptionWhole ==
    ASSUME backend \in {"tcp", "rtu"}, IsMessage(req), req.fn > 0,
           NEW code \in Nat, code <= 255
    PROVE  WholeReply(ExceptionResponse(code))
<1> DEFINE fn == req.fn + 128
           r == ResponseBasis(fn)
           len == r.length + 1
           m == [r EXCEPT !.count = code, !.length = len]
<1>1. fn \in Nat /\ fn > 128
  BY DEF IsMessage, Message
<1> HIDE DEF fn
<1>2. r \in Message(0) /\ r.fn = fn /\ r.length = PresetRspLength
  <2>1. r \in Message(0)
    BY <1>1, ResponseBasisType, Zenon
  <2>2. r.fn = fn /\ r.length = PresetRspLength
    BY DEF ResponseBasis, RequestBasis
  <2> QED
    BY <2>1, <2>2
<1>3. len \in Nat /\ len = PresetRspLength + 1 + 0
  BY <1>2, PresetLengths
<1> HIDE DEF r, len
<1>4. m \in Message(0)
  BY <1>2, <1>3, FilledCode, Zenon
<1>5. m.fn = fn /\ m.length = len
  BY <1>2 DEF Message
<1>6. m = ExceptionResponse(code)
  BY DEF ExceptionResponse, r, len, fn
<1> HIDE DEF m
<1>7. MetaLengthOfConfirmation(m.fn) = 1 /\ DataLengthOfConfirmation(m) = 0
  BY <1>1, <1>5, ConfirmationMetas, ConfirmationDatas
<1> QED
  BY <1>3, <1>4, <1>5, <1>6, <1>7, ReplyOfLength

(* The functions whose answer is a byte count and values.                     *)
ValueFns == {fn \in Nat : fn <= 4} \cup {17, 23}

(* A response with n bytes of values.                                         *)
LEMMA ValuesWhole ==
    ASSUME backend \in {"tcp", "rtu"}, IsMessage(req), NEW fn \in Nat,
           fn \in ValueFns,
           NEW n \in Nat, n <= 251, NEW data \in [0..(n - 1) -> Byte]
    PROVE  WholeReply([ResponseBasis(fn) EXCEPT
                          !.count = n, !.data = data, !.length = @ + 1 + n])
<1> DEFINE r == ResponseBasis(fn)
           len == r.length + 1 + n
           m == [r EXCEPT !.count = n, !.data = data, !.length = len]
<1>1. n <= 255
  OBVIOUS
<1>2. r \in Message(0) /\ r.fn = fn /\ r.length = PresetRspLength
  <2>1. r \in Message(0)
    BY ResponseBasisType, Zenon
  <2>2. r.fn = fn /\ r.length = PresetRspLength
    BY DEF ResponseBasis, RequestBasis
  <2> QED
    BY <2>1, <2>2
<1>3. len \in Nat /\ len = PresetRspLength + 1 + n
  BY <1>2, PresetLengths
<1> HIDE DEF r, len
<1>4. m \in Message(n)
  BY <1>1, <1>2, <1>3, Filled, Zenon
<1>5. m.fn = fn /\ m.length = len /\ m.count = n
  BY <1>2 DEF Message
<1> HIDE DEF m
<1>6. MetaLengthOfConfirmation(m.fn) = 1 /\ DataLengthOfConfirmation(m) = n
  BY <1>5, ConfirmationMetas, ConfirmationDatas DEF ValueFns
<1>7. WholeReply(m)
  BY <1>3, <1>4, <1>5, <1>6, ReplyOfLength
<1> QED
  BY <1>7 DEF m, r, len

(* A message with an address, a number and a length filled in.                *)
LEMMA FilledPlace ==
    ASSUME NEW k \in Nat, NEW r \in Message(k), NEW addr \in Nat,
           NEW nb \in Nat, NEW length \in Nat
    PROVE  [r EXCEPT !.addr = addr, !.nb = nb, !.length = length] \in Message(k)
BY DEF Message

(* The answer to a write of several values.                                   *)
LEMMA WrittenWhole ==
    ASSUME backend \in {"tcp", "rtu"}, IsMessage(req), req.fn \in {15, 16}
    PROVE  WholeReply(Written)
<1> DEFINE r == ResponseBasis(req.fn)
           len == r.length + 4
           m == [r EXCEPT !.addr = req.addr, !.nb = req.nb, !.length = len]
<1>1. req.fn \in Nat /\ req.addr \in Nat /\ req.nb \in Nat
  BY DEF IsMessage, Message
<1>2. r \in Message(0) /\ r.fn = req.fn /\ r.length = PresetRspLength
  <2>1. r \in Message(0)
    BY <1>1, ResponseBasisType, Zenon
  <2>2. r.fn = req.fn /\ r.length = PresetRspLength
    BY DEF ResponseBasis, RequestBasis
  <2> QED
    BY <2>1, <2>2
<1>3. len \in Nat /\ len = PresetRspLength + 4 + 0
  BY <1>2, PresetLengths
<1> HIDE DEF r, len
<1>4. m \in Message(0)
  BY <1>1, <1>2, <1>3, FilledPlace, Zenon
<1>5. m.fn = req.fn /\ m.length = len
  BY <1>2 DEF Message
<1>6. m = Written
  BY DEF Written, r, len
<1> HIDE DEF m
<1>7. MetaLengthOfConfirmation(m.fn) = 4 /\ DataLengthOfConfirmation(m) = 0
  BY <1>1, <1>5, ConfirmationMetas, ConfirmationDatas
<1> QED
  BY <1>3, <1>4, <1>5, <1>6, <1>7, ReplyOfLength

(* The answer to a read of bits.                                              *)
LEMMA BitsResponseWhole ==
    ASSUME backend \in {"tcp", "rtu"}, IsMessage(req), req.fn \in ReadBitsFns,
           req.nb <= MODBUS_MAX_READ_BITS, NEW t
    PROVE  WholeReply(BitsResponse(t))
<1> DEFINE n == BytesOfBits(req.nb)
           data == PutBits(mapping[t], MappingAddress(t, req.addr), req.nb)
<1>1. req.nb \in Nat /\ req.fn \in Nat
  BY DEF IsMessage, Message
<1>2. n \in Nat /\ n <= 251 /\ n % 256 = n
  BY <1>1, BytesOfBitsBound
<1>3. data \in [0..(n - 1) -> Byte]
  BY <1>1, PutBitsType
<1>4. req.fn \in ValueFns
  BY DEF ReadBitsFns, ValueFns, MODBUS_FC_READ_COILS,
         MODBUS_FC_READ_DISCRETE_INPUTS
<1>5. BitsResponse(t) =
         [ResponseBasis(req.fn) EXCEPT
             !.count = n, !.data = data, !.length = @ + 1 + n]
  BY <1>2 DEF BitsResponse
<1> HIDE DEF n, data
<1>6. WholeReply([ResponseBasis(req.fn) EXCEPT
                     !.count = n, !.data = data, !.length = @ + 1 + n])
  BY <1>1, <1>2, <1>3, <1>4, ValuesWhole
<1> QED
  BY <1>5, <1>6

(* The answer to a read of registers.                                         *)
LEMMA RegistersResponseWhole ==
    ASSUME backend \in {"tcp", "rtu"}, IsMessage(req),
           req.fn \in ReadRegistersFns, req.nb <= 125, NEW t, NEW tables
    PROVE  WholeReply(RegistersResponse(t, tables))
<1> DEFINE n == 2 * req.nb
           data == PutWords(tables[t], MappingAddress(t, req.addr), req.nb)
<1>1. req.nb \in Nat /\ req.fn \in Nat
  BY DEF IsMessage, Message
<1>2. n \in Nat /\ n <= 251 /\ n % 256 = n
  <2>1. n \in Nat /\ n <= 251
    BY <1>1
  <2> HIDE DEF n
  <2> QED
    BY <2>1
<1>3. data \in [0..(n - 1) -> Byte]
  BY <1>1, PutWordsType
<1>4. req.fn \in ValueFns
  BY DEF ReadRegistersFns, ValueFns, MODBUS_FC_READ_HOLDING_REGISTERS,
         MODBUS_FC_READ_INPUT_REGISTERS, MODBUS_FC_WRITE_AND_READ_REGISTERS
<1>5. RegistersResponse(t, tables) =
         [ResponseBasis(req.fn) EXCEPT
             !.count = n, !.data = data, !.length = @ + 1 + n]
  BY <1>2 DEF RegistersResponse
<1> HIDE DEF n, data
<1>6. WholeReply([ResponseBasis(req.fn) EXCEPT
                     !.count = n, !.data = data, !.length = @ + 1 + n])
  BY <1>1, <1>2, <1>3, <1>4, ValuesWhole
<1> QED
  BY <1>5, <1>6

(* The answer to report slave id.                                             *)
LEMMA IdentityWhole ==
    ASSUME backend \in {"tcp", "rtu"}, IsMessage(req),
           req.fn = MODBUS_FC_REPORT_SLAVE_ID
    PROVE  WholeReply(
               [ResponseBasis(req.fn) EXCEPT
                   !.count  = Len(Identity) % 256,
                   !.data   = [k \in 0..(Len(Identity) - 1) |-> Identity[k + 1]],
                   !.length = @ + 1 + Len(Identity)])
<1> DEFINE n == Len(Identity)
           data == [k \in 0..(n - 1) |-> Identity[k + 1]]
           m == [ResponseBasis(req.fn) EXCEPT
                   !.count = n % 256, !.data = data, !.length = @ + 1 + n]
<1>1. n \in Nat /\ n <= 251 /\ n % 256 = n
  <2>1. Identity \in Seq(Byte) /\ n <= 251
    BY ConstantsAssumption, Zenon
  <2>2. n \in Nat
    BY <2>1
  <2> HIDE DEF n
  <2> QED
    BY <2>1, <2>2
<1>2. data \in [0..(n - 1) -> Byte]
  <2>1. \A k \in 0..(n - 1) : Identity[k + 1] \in Byte
    <3>1. Identity \in Seq(Byte)
      BY ConstantsAssumption, Zenon
    <3> QED
      BY <3>1
  <2> QED
    BY <2>1
<1>3. req.fn \in Nat /\ req.fn \in ValueFns
  BY DEF ValueFns, MODBUS_FC_REPORT_SLAVE_ID
<1>4. m = [ResponseBasis(req.fn) EXCEPT
             !.count = n, !.data = data, !.length = @ + 1 + n]
  BY <1>1
<1> HIDE DEF n, data, m
<1>5. WholeReply(m)
  BY <1>1, <1>2, <1>3, <1>4, ValuesWhole
<1> QED
  BY <1>5 DEF m, n, data

(* The echo of a request is as long as the receiver of an answer expects.     *)
LEMMA EchoWhole ==
    ASSUME backend \in {"tcp", "rtu"}, IsMessage(req), req.fn \in {5, 6, 22},
           IndicationLength(req) = req.length
    PROVE  WholeReply(Echo)
<1> DEFINE meta == MetaLengthOfIndication(req.fn)
           len == req.length - ChecksumLength
           m == [req EXCEPT !.length = len]
<1>1. PICK k \in 0..MAX_MESSAGE_LENGTH : req \in Message(k)
  BY DEF IsMessage
<1>2. meta \in {4, 6} /\ MetaLengthOfConfirmation(req.fn) = meta
  BY Metas, ConfirmationMetas DEF MODBUS_FC_MASK_WRITE_REGISTER
<1>3. DataLengthOfIndication(req) = 0
  BY Datas
<1>4. len = HeaderLength + 1 + meta /\ len \in Nat
  BY <1>2, <1>3 DEF IndicationLength, HeaderLength, ChecksumLength
<1> HIDE DEF len, meta
<1>5. m \in Message(k) /\ m.fn = req.fn /\ m.length = len
  BY <1>1, <1>4 DEF Message
<1>6. m = Echo
  BY DEF Echo, len
<1> HIDE DEF m
<1>7. IsMessage(m)
  BY <1>1, <1>5 DEF IsMessage
<1>8. DataLengthOfConfirmation(m) = 0
  BY <1>5, ConfirmationDatas
<1>9. ConfirmationLength(m) = len + ChecksumLength
  BY <1>2, <1>4, <1>5, <1>8
     DEF ConfirmationLength, HeaderLength, ChecksumLength
<1>10. len + ChecksumLength <= MaxAduLength
  BY <1>2, <1>4 DEF HeaderLength, ChecksumLength, MaxAduLength
<1> QED
  BY <1>5, <1>6, <1>7, <1>9, <1>10 DEF WholeReply

(* A reply that is whole keeps the invariant.                                 *)
LEMMA AnswerStep ==
    ASSUME IInv, IsMessage(req), NEW m, WholeReply(m), Answer(m),
           mapping' \in Mappings
    PROVE  IInv'
<1>1. /\ UNCHANGED <<backend, call, req, result, dest, calls>>
      /\ rsp' = WithChecksum(m) /\ phase' \in {"silence", "confirmation"}
  BY DEF Answer
<1>2. /\ IsMessage(rsp') /\ ConfirmationLength(rsp') = rsp'.length
      /\ rsp'.length <= MaxAduLength
  BY <1>1, ChecksumKeeps DEF WholeReply, IInv, TypeOK
<1>3. TypeOK'
  <2>1. IsMessage(rsp)' /\ IsMessage(req)'
    BY <1>1, <1>2 DEF IsMessage, Message
  <2>2. mapping' \in Mappings'
    BY DEF Mappings
  <2> QED
    BY <1>1, <2>1, <2>2 DEF IInv, TypeOK
<1>4. ConfirmationLength(rsp)' = ConfirmationLength(rsp')
      /\ MaxAduLength' = MaxAduLength
  BY <1>1 DEF ConfirmationLength, DataLengthOfConfirmation, HeaderLength,
              ChecksumLength, MaxAduLength
<1>5. FramesWhole'
  BY <1>1, <1>2, <1>4 DEF FramesWhole
<1> QED
  BY <1>3, <1>5 DEF IInv

(* A case of modbus_reply keeps the invariant, refused or not.                *)
LEMMA ReplyStep ==
    ASSUME IInv, NEW fn \in Functions, NEW legal, NEW inside, NEW m, NEW tables,
           Reply(fn, legal, inside, m, tables),
           (legal /\ inside) => WholeReply(m) /\ tables \in Mappings
    PROVE  IInv'
<1>1. /\ IsMessage(req) /\ req.fn = fn /\ req.fn > 0
      /\ backend \in {"tcp", "rtu"} /\ mapping \in Mappings
  BY DEF IInv, TypeOK, Reply, Indicated, Functions, ReadBitsFns,
         ReadRegistersFns, WriteSingleFns, WriteMultipleFns,
         MODBUS_FC_READ_COILS, MODBUS_FC_READ_DISCRETE_INPUTS,
         MODBUS_FC_READ_HOLDING_REGISTERS, MODBUS_FC_READ_INPUT_REGISTERS,
         MODBUS_FC_WRITE_SINGLE_COIL, MODBUS_FC_WRITE_SINGLE_REGISTER,
         MODBUS_FC_WRITE_MULTIPLE_COILS, MODBUS_FC_WRITE_MULTIPLE_REGISTERS,
         MODBUS_FC_REPORT_SLAVE_ID, MODBUS_FC_MASK_WRITE_REGISTER,
         MODBUS_FC_WRITE_AND_READ_REGISTERS
<1>2. ASSUME NEW code \in {ILLEGAL_DATA_VALUE, ILLEGAL_DATA_ADDRESS}, Refuse(code)
      PROVE  IInv'
  <2>1. code \in Nat /\ code <= 255
    BY DEF ILLEGAL_DATA_VALUE, ILLEGAL_DATA_ADDRESS
  <2>2. WholeReply(ExceptionResponse(code))
    BY <1>1, <2>1, ExceptionWhole
  <2>3. Answer(ExceptionResponse(code)) /\ mapping' = mapping
    BY <1>2 DEF Refuse
  <2>4. mapping' \in Mappings
    BY <1>1, <2>3
  <2> QED
    BY <1>1, <2>2, <2>3, <2>4, AnswerStep
<1>3. CASE legal /\ inside /\ Answer(m) /\ mapping' = tables
  BY <1>1, <1>3, AnswerStep
<1> QED
  BY <1>2, <1>3 DEF Reply

-----------------------------------------------------------------------------
(* Every action keeps the invariant.                                          *)

(* What a call names are natural numbers.                                     *)
LEMMA Inputs ==
    /\ \A slave \in Slaves : slave \in Nat
    /\ \A addr \in Addrs : addr \in Nat
    /\ \A nb \in BitCounts : nb \in Nat
    /\ \A nb \in WordCounts : nb \in Nat
BY ConstantsAssumption, Zenon

(* A read is sent as a whole request.                                         *)
LEMMA ReadRequestStep ==
    ASSUME IInv, NEW op, NEW fn \in Nat, fn \in 1..4, NEW max,
           NEW counts, \A nb \in counts : nb \in Nat,
           ReadRequest(op, fn, counts, max)
    PROVE  IInv'
<1>1. PICK slave \in Slaves, addr \in Addrs, nb \in counts :
         Request([op |-> op, slave |-> slave, addr |-> addr, nb |-> nb],
                 nb > max, RequestBasis(fn, slave, addr, nb))
  BY DEF ReadRequest
<1>2. slave \in Nat /\ addr \in Nat /\ nb \in Nat
  BY Inputs
<1>3. backend \in {"tcp", "rtu"}
  BY DEF IInv, TypeOK
<1>4. WholeRequest(RequestBasis(fn, slave, addr, nb))
  BY <1>2, <1>3, ReadRequestWhole
<1> QED
  BY <1>1, <1>4, RequestStep

(* The four reads.                                                            *)
LEMMA ReadsStep ==
    ASSUME IInv, ReadBits \/ ReadInputBits \/ ReadRegisters \/ ReadInputRegisters
    PROVE  IInv'
<1>1. CASE ReadBits
  BY <1>1, Inputs, ReadRequestStep DEF ReadBits, MODBUS_FC_READ_COILS
<1>2. CASE ReadInputBits
  BY <1>2, Inputs, ReadRequestStep
     DEF ReadInputBits, MODBUS_FC_READ_DISCRETE_INPUTS
<1>3. CASE ReadRegisters
  BY <1>3, Inputs, ReadRequestStep
     DEF ReadRegisters, MODBUS_FC_READ_HOLDING_REGISTERS
<1>4. CASE ReadInputRegisters
  BY <1>4, Inputs, ReadRequestStep
     DEF ReadInputRegisters, MODBUS_FC_READ_INPUT_REGISTERS
<1> QED
  BY <1>1, <1>2, <1>3, <1>4

(* modbus_write_bit.                                                          *)
LEMMA WriteBitStep == ASSUME IInv, WriteBit PROVE IInv'
<1>1. PICK slave \in Slaves, addr \in Addrs, status \in BOOLEAN :
        Request([op |-> "write_bit", slave |-> slave, waddr |-> addr, wnb |-> 1,
                 src |-> [i \in {0} |-> status]],
                FALSE,
                [RequestBasis(MODBUS_FC_WRITE_SINGLE_COIL, slave, addr, 0) EXCEPT
                    !.data = [k \in 0..1 |->
                                IF status /\ k = 0 THEN 0..7 ELSE {}]])
  BY DEF WriteBit
<1> DEFINE data == [k \in 0..1 |-> IF status /\ k = 0 THEN 0..7 ELSE {}]
           fn == MODBUS_FC_WRITE_SINGLE_COIL
<1>2. slave \in Nat /\ addr \in Nat /\ 0 \in Nat
  BY Inputs
<1>3. data \in [0..1 -> Byte]
  BY DEF Byte
<1>4. fn \in Nat /\ fn \in WriteSingleFns
  BY DEF WriteSingleFns, MODBUS_FC_WRITE_SINGLE_COIL
<1>5. backend \in {"tcp", "rtu"}
  BY DEF IInv, TypeOK
<1> HIDE DEF data, fn
<1>6. WholeRequest([RequestBasis(fn, slave, addr, 0) EXCEPT !.data = data])
  BY <1>2, <1>3, <1>4, <1>5, WriteSingleWhole
<1> QED
  BY <1>1, <1>6, RequestStep DEF data, fn

(* modbus_write_register.                                                     *)
LEMMA WriteRegisterStep == ASSUME IInv, WriteRegister PROVE IInv'
<1>1. PICK slave \in Slaves, addr \in Addrs, value \in Words :
        Request([op |-> "write_register", slave |-> slave, waddr |-> addr,
                 wnb |-> 1, src |-> [i \in {0} |-> value]],
                FALSE,
                [RequestBasis(MODBUS_FC_WRITE_SINGLE_REGISTER, slave, addr, 0)
                    EXCEPT !.data = PutWords([i \in {0} |-> value], 0, 1)])
  BY DEF WriteRegister
<1> DEFINE data == PutWords([i \in {0} |-> value], 0, 1)
           fn == MODBUS_FC_WRITE_SINGLE_REGISTER
<1>2. slave \in Nat /\ addr \in Nat /\ 0 \in Nat
  BY Inputs
<1>3. data \in [0..1 -> Byte]
  BY DEF PutWords, Hi, Lo, Byte
<1>4. fn \in Nat /\ fn \in WriteSingleFns
  BY DEF WriteSingleFns, MODBUS_FC_WRITE_SINGLE_REGISTER
<1>5. backend \in {"tcp", "rtu"}
  BY DEF IInv, TypeOK
<1> HIDE DEF data, fn
<1>6. WholeRequest([RequestBasis(fn, slave, addr, 0) EXCEPT !.data = data])
  BY <1>2, <1>3, <1>4, <1>5, WriteSingleWhole
<1> QED
  BY <1>1, <1>6, RequestStep DEF data, fn

(* modbus_write_bits: a legal number of bits fits the byte count.             *)
LEMMA WriteBitsStep == ASSUME IInv, WriteBits PROVE IInv'
<1>1. PICK slave \in Slaves, addr \in Addrs, nb \in BitCounts, src \in BitTables :
        Request([op |-> "write_bits", slave |-> slave, waddr |-> addr,
                 wnb |-> nb, src |-> src],
                nb > MODBUS_MAX_WRITE_BITS,
                [RequestBasis(MODBUS_FC_WRITE_MULTIPLE_COILS, slave, addr, nb)
                    EXCEPT !.count  = BytesOfBits(nb) % 256,
                           !.data   = PutBits(src, 0, nb),
                           !.length = @ + 1 + BytesOfBits(nb)])
  BY DEF WriteBits
<1> DEFINE n == BytesOfBits(nb)
           data == PutBits(src, 0, nb)
           fn == MODBUS_FC_WRITE_MULTIPLE_COILS
           m == [RequestBasis(fn, slave, addr, nb)
                    EXCEPT !.count = n % 256, !.data = data, !.length = @ + 1 + n]
<1>2. slave \in Nat /\ addr \in Nat /\ nb \in Nat
  BY Inputs
<1>3. fn \in Nat /\ fn \in WriteMultipleFns
  BY DEF WriteMultipleFns, MODBUS_FC_WRITE_MULTIPLE_COILS
<1>4. backend \in {"tcp", "rtu"}
  BY DEF IInv, TypeOK
<1>5. data \in [0..(n - 1) -> Byte]
  BY <1>2, PutBitsType
<1>6. ASSUME ~(nb > MODBUS_MAX_WRITE_BITS) PROVE WholeRequest(m)
  <2>1. n \in Nat /\ n <= 246 /\ n % 256 = n
    BY <1>2, <1>6, WriteBitsBound
  <2>2. m = [RequestBasis(fn, slave, addr, nb)
               EXCEPT !.count = n, !.data = data, !.length = @ + 1 + n]
    BY <2>1
  <2> HIDE DEF n, data, fn, m
  <2>3. WholeRequest([RequestBasis(fn, slave, addr, nb)
               EXCEPT !.count = n, !.data = data, !.length = @ + 1 + n])
    BY <1>2, <1>3, <1>4, <1>5, <2>1, WriteMultipleWhole
  <2> QED
    BY <2>2, <2>3
<1> HIDE DEF m
<1> QED
  BY <1>1, <1>6, RequestStep DEF m

(* modbus_write_registers: a legal number fits the byte count.                *)
LEMMA WriteRegistersStep == ASSUME IInv, WriteRegisters PROVE IInv'
<1>1. PICK slave \in Slaves, addr \in Addrs, nb \in WordCounts, src \in WordTables :
        Request([op |-> "write_registers", slave |-> slave, waddr |-> addr,
                 wnb |-> nb, src |-> src],
                nb > MODBUS_MAX_WRITE_REGISTERS,
                [RequestBasis(MODBUS_FC_WRITE_MULTIPLE_REGISTERS, slave, addr, nb)
                    EXCEPT !.count  = (2 * nb) % 256,
                           !.data   = PutWords(src, 0, nb),
                           !.length = @ + 1 + 2 * nb])
  BY DEF WriteRegisters
<1> DEFINE n == 2 * nb
           data == PutWords(src, 0, nb)
           fn == MODBUS_FC_WRITE_MULTIPLE_REGISTERS
           m == [RequestBasis(fn, slave, addr, nb)
                    EXCEPT !.count = n % 256, !.data = data, !.length = @ + 1 + n]
<1>2. slave \in Nat /\ addr \in Nat /\ nb \in Nat
  BY Inputs
<1>3. fn \in Nat /\ fn \in WriteMultipleFns
  BY DEF WriteMultipleFns, MODBUS_FC_WRITE_MULTIPLE_REGISTERS
<1>4. backend \in {"tcp", "rtu"}
  BY DEF IInv, TypeOK
<1>5. data \in [0..(n - 1) -> Byte]
  BY <1>2, PutWordsType
<1>6. ASSUME ~(nb > MODBUS_MAX_WRITE_REGISTERS) PROVE WholeRequest(m)
  <2>1. n \in Nat /\ n <= 246 /\ n % 256 = n
    BY <1>2, <1>6 DEF MODBUS_MAX_WRITE_REGISTERS
  <2>2. m = [RequestBasis(fn, slave, addr, nb)
               EXCEPT !.count = n, !.data = data, !.length = @ + 1 + n]
    BY <2>1
  <2> HIDE DEF n, data, fn, m
  <2>3. WholeRequest([RequestBasis(fn, slave, addr, nb)
               EXCEPT !.count = n, !.data = data, !.length = @ + 1 + n])
    BY <1>2, <1>3, <1>4, <1>5, <2>1, WriteMultipleWhole
  <2> QED
    BY <2>2, <2>3
<1> HIDE DEF m
<1> QED
  BY <1>1, <1>6, RequestStep DEF m

(* modbus_mask_write_register.                                                *)
LEMMA MaskWriteStep == ASSUME IInv, MaskWriteRegister PROVE IInv'
<1>1. PICK slave \in Slaves, addr \in Addrs, and_mask \in Words, or_mask \in Words :
        LET masks == [i \in 0..1 |-> IF i = 0 THEN and_mask ELSE or_mask]
        IN  Request([op |-> "mask_write_register", slave |-> slave,
                     waddr |-> addr, wnb |-> 1, src |-> masks],
                    FALSE,
                    [RequestBasis(MODBUS_FC_MASK_WRITE_REGISTER, slave, addr, 0)
                        EXCEPT !.data = PutWords(masks, 0, 2),
                               !.length = @ - 2 + 4])
  BY DEF MaskWriteRegister
<1> DEFINE masks == [i \in 0..1 |-> IF i = 0 THEN and_mask ELSE or_mask]
           n == 2 * 2
           data == PutWords(masks, 0, 2)
           m == [RequestBasis(MODBUS_FC_MASK_WRITE_REGISTER, slave, addr, 0)
                    EXCEPT !.data = data, !.length = @ - 2 + 4]
<1>2. slave \in Nat /\ addr \in Nat /\ 0 \in Nat /\ n \in Nat /\ n <= 4
  BY Inputs
<1>3. data \in [0..(n - 1) -> Byte]
  BY PutWordsType
<1>4. backend \in {"tcp", "rtu"}
  BY DEF IInv, TypeOK
<1> HIDE DEF data, n, masks
<1>5. WholeRequest(m)
  BY <1>2, <1>3, <1>4, MaskWriteWhole
<1> HIDE DEF m
<1> QED
  BY <1>1, <1>5, RequestStep DEF m, data, masks

(* modbus_write_and_read_registers.                                           *)
LEMMA WriteAndReadStep == ASSUME IInv, WriteAndReadRegisters PROVE IInv'
<1>1. PICK slave \in Slaves, waddr \in Addrs, addr \in Addrs, wnb \in WordCounts,
          nb \in WordCounts, src \in WordTables :
        Request([op |-> "write_and_read_registers", slave |-> slave,
                 addr |-> addr, nb |-> nb, waddr |-> waddr, wnb |-> wnb,
                 src |-> src],
                \/ wnb > MODBUS_MAX_WR_WRITE_REGISTERS
                \/ nb > MODBUS_MAX_WR_READ_REGISTERS,
                [RequestBasis(MODBUS_FC_WRITE_AND_READ_REGISTERS, slave, addr, nb)
                    EXCEPT !.waddr  = waddr,
                           !.wnb    = wnb,
                           !.count  = (2 * wnb) % 256,
                           !.data   = PutWords(src, 0, wnb),
                           !.length = @ + 5 + 2 * wnb])
  BY DEF WriteAndReadRegisters
<1> DEFINE n == 2 * wnb
           data == PutWords(src, 0, wnb)
           r == RequestBasis(MODBUS_FC_WRITE_AND_READ_REGISTERS, slave, addr, nb)
           m == [r EXCEPT !.waddr = waddr, !.wnb = wnb, !.count = n % 256,
                          !.data = data, !.length = @ + 5 + n]
           tooMany == \/ wnb > MODBUS_MAX_WR_WRITE_REGISTERS
                      \/ nb > MODBUS_MAX_WR_READ_REGISTERS
<1>2. /\ slave \in Nat /\ addr \in Nat /\ nb \in Nat
      /\ waddr \in Nat /\ wnb \in Nat
  BY Inputs
<1>3. backend \in {"tcp", "rtu"}
  BY DEF IInv, TypeOK
<1>4. data \in [0..(n - 1) -> Byte]
  BY <1>2, PutWordsType
<1>5. ASSUME ~tooMany PROVE WholeRequest(m)
  <2>1. n \in Nat /\ n <= 242 /\ n % 256 = n
    BY <1>2, <1>5 DEF MODBUS_MAX_WR_WRITE_REGISTERS
  <2>2. m = [r EXCEPT !.waddr = waddr, !.wnb = wnb, !.count = n,
                      !.data = data, !.length = @ + 5 + n]
    BY <2>1
  <2> HIDE DEF n, data, m
  <2>3. WholeRequest([r EXCEPT !.waddr = waddr, !.wnb = wnb, !.count = n,
                               !.data = data, !.length = @ + 5 + n])
    BY <1>2, <1>3, <1>4, <2>1, WriteAndReadWhole, Zenon
  <2> QED
    BY <2>2, <2>3
<1> DEFINE c == [op |-> "write_and_read_registers", slave |-> slave,
                 addr |-> addr, nb |-> nb, waddr |-> waddr, wnb |-> wnb,
                 src |-> src]
<1>6. Request(c, tooMany, m)
  BY <1>1
<1> HIDE DEF m, tooMany, c
<1> QED
  BY <1>5, <1>6, RequestStep

(* modbus_report_slave_id.                                                    *)
LEMMA ReportStep == ASSUME IInv, ReportSlaveId PROVE IInv'
<1>1. PICK slave \in Slaves, max_dest \in WordCounts :
        Request([op |-> "report_slave_id", slave |-> slave, nb |-> max_dest],
                max_dest <= 0,
                [RequestBasis(MODBUS_FC_REPORT_SLAVE_ID, slave, 0, 0)
                    EXCEPT !.length = @ - 4])
  BY DEF ReportSlaveId
<1> DEFINE m == [RequestBasis(MODBUS_FC_REPORT_SLAVE_ID, slave, 0, 0)
                    EXCEPT !.length = @ - 4]
<1>2. slave \in Nat /\ backend \in {"tcp", "rtu"}
  BY Inputs DEF IInv, TypeOK
<1>3. WholeRequest(m)
  BY <1>2, ReportWhole
<1> HIDE DEF m
<1> QED
  BY <1>1, <1>3, RequestStep DEF m

(* What the server knows of a request it has read to the end.                 *)
LEMMA AtIndication ==
    ASSUME IInv, NEW fn, Indicated(fn)
    PROVE  /\ IsMessage(req) /\ req.fn = fn /\ mapping \in Mappings
           /\ IndicationLength(req) = req.length
           /\ backend \in {"tcp", "rtu"}
           /\ req.addr \in Nat /\ req.nb \in Nat /\ req.waddr \in Nat
           /\ req.wnb \in Nat
<1>1. IsMessage(req)
  BY DEF IInv, TypeOK, Indicated
<1> QED
  BY <1>1 DEF IInv, TypeOK, Indicated, IsMessage, Message

(* The server reads bits.                                                     *)
LEMMA ReplyReadBitsStep ==
    ASSUME IInv, NEW fn \in ReadBitsFns, NEW t, ReplyReadBits(fn, t)
    PROVE  IInv'
<1> DEFINE legal == req.nb \in 1..MODBUS_MAX_READ_BITS
           inside == Inside(t, req.addr, req.nb)
<1>1. Reply(fn, legal, inside, BitsResponse(t), mapping)
  BY DEF ReplyReadBits
<1>2. /\ IsMessage(req) /\ req.fn = fn /\ mapping \in Mappings
      /\ backend \in {"tcp", "rtu"}
  BY <1>1, AtIndication DEF Reply
<1>3. ASSUME legal PROVE WholeReply(BitsResponse(t))
  <2>1. MODBUS_MAX_READ_BITS \in Nat
    BY DEF MODBUS_MAX_READ_BITS
  <2>2. req.nb <= MODBUS_MAX_READ_BITS
    BY <1>3, <2>1
  <2> QED
    BY <1>2, <2>2, BitsResponseWhole
<1>4. fn \in Functions
  BY DEF Functions
<1> HIDE DEF legal, inside
<1> QED
  BY <1>1, <1>2, <1>3, <1>4, ReplyStep

(* The server reads registers.                                                *)
LEMMA ReplyReadRegistersStep ==
    ASSUME IInv, NEW fn \in ReadRegistersFns, NEW t, ReplyReadRegisters(fn, t)
    PROVE  IInv'
<1> DEFINE legal == req.nb \in 1..MODBUS_MAX_READ_REGISTERS
           inside == Inside(t, req.addr, req.nb)
           m == RegistersResponse(t, mapping)
<1>1. Reply(fn, legal, inside, m, mapping)
  BY DEF ReplyReadRegisters
<1>2. /\ IsMessage(req) /\ req.fn = fn /\ mapping \in Mappings
      /\ backend \in {"tcp", "rtu"}
  BY <1>1, AtIndication DEF Reply
<1>3. ASSUME legal PROVE WholeReply(m)
  <2>1. req.nb <= 125
    BY <1>3 DEF MODBUS_MAX_READ_REGISTERS
  <2> QED
    BY <1>2, <2>1, RegistersResponseWhole
<1>4. fn \in Functions
  BY DEF Functions
<1> HIDE DEF legal, inside, m
<1> QED
  BY <1>1, <1>2, <1>3, <1>4, ReplyStep

(* The server writes a bit.                                                   *)
LEMMA ReplyWriteBitStep == ASSUME IInv, ReplyWriteBit PROVE IInv'
<1> DEFINE fn == MODBUS_FC_WRITE_SINGLE_COIL
           inside == Inside("bits", req.addr, 1)
           v == [i \in {0} |-> req.data[0] # {}]
           tables == Store("bits", req.addr, 1, v)
<1>1. Reply(fn, TRUE, inside, Echo, tables)
  BY DEF ReplyWriteBit
<1>2. /\ IsMessage(req) /\ req.fn = fn /\ mapping \in Mappings
      /\ backend \in {"tcp", "rtu"} /\ IndicationLength(req) = req.length
      /\ req.addr \in Nat
  BY <1>1, AtIndication DEF Reply
<1>3. fn \in Functions /\ fn \in {5, 6, 22}
  BY DEF Functions, WriteSingleFns, MODBUS_FC_WRITE_SINGLE_COIL
<1>4. v \in [0..(1 - 1) -> BOOLEAN]
  OBVIOUS
<1> HIDE DEF fn, inside, v
<1>5. tables \in Mappings
  BY <1>2, <1>4, StoreBitsType
<1>6. WholeReply(Echo)
  BY <1>2, <1>3, EchoWhole
<1> HIDE DEF tables
<1> QED
  BY <1>1, <1>3, <1>5, <1>6, ReplyStep

(* The server writes a register.                                              *)
LEMMA ReplyWriteRegisterStep == ASSUME IInv, ReplyWriteRegister PROVE IInv'
<1> DEFINE fn == MODBUS_FC_WRITE_SINGLE_REGISTER
           inside == Inside("registers", req.addr, 1)
           v == GetWords(req.data, 1)
           tables == Store("registers", req.addr, 1, v)
<1>1. Reply(fn, TRUE, inside, Echo, tables)
  BY DEF ReplyWriteRegister
<1>2. /\ IsMessage(req) /\ req.fn = fn /\ mapping \in Mappings
      /\ backend \in {"tcp", "rtu"} /\ IndicationLength(req) = req.length
      /\ req.addr \in Nat
  BY <1>1, AtIndication DEF Reply
<1>3. fn \in Functions /\ fn \in {5, 6, 22}
  BY DEF Functions, WriteSingleFns, MODBUS_FC_WRITE_SINGLE_REGISTER
<1>4. v \in [0..(1 - 1) -> Word]
  BY GetWordsType
<1> HIDE DEF fn, inside, v
<1>5. tables \in Mappings
  BY <1>2, <1>4, StoreRegistersType
<1>6. WholeReply(Echo)
  BY <1>2, <1>3, EchoWhole
<1> HIDE DEF tables
<1> QED
  BY <1>1, <1>3, <1>5, <1>6, ReplyStep

(* The server writes a register through two masks.                            *)
LEMMA ReplyMaskWriteStep == ASSUME IInv, ReplyMaskWriteRegister PROVE IInv'
<1> DEFINE fn == MODBUS_FC_MASK_WRITE_REGISTER
           inside == Inside("registers", req.addr, 1)
           old == mapping["registers"][MappingAddress("registers", req.addr)]
           v == [i \in {0} |-> Masked(old, GetWords(req.data, 2)[0],
                                           GetWords(req.data, 2)[1])]
           tables == Store("registers", req.addr, 1, v)
<1>1. Reply(fn, TRUE, inside, Echo, tables)
  BY DEF ReplyMaskWriteRegister
<1>2. /\ IsMessage(req) /\ req.fn = fn /\ mapping \in Mappings
      /\ backend \in {"tcp", "rtu"} /\ IndicationLength(req) = req.length
      /\ req.addr \in Nat
  BY <1>1, AtIndication DEF Reply
<1>3. fn \in Functions /\ fn \in {5, 6, 22}
  BY DEF Functions, MODBUS_FC_MASK_WRITE_REGISTER
<1>4. v \in [0..(1 - 1) -> Word]
  <2>1. GetWords(req.data, 2)[0] \in Word /\ GetWords(req.data, 2)[1] \in Word
    BY GetWordsType
  <2>2. Masked(old, GetWords(req.data, 2)[0], GetWords(req.data, 2)[1]) \in Word
    BY <2>1 DEF Masked, Word
  <2> QED
    BY <2>2
<1> HIDE DEF fn, inside, v
<1>5. tables \in Mappings
  BY <1>2, <1>4, StoreRegistersType
<1>6. WholeReply(Echo)
  BY <1>2, <1>3, EchoWhole
<1> HIDE DEF tables
<1> QED
  BY <1>1, <1>3, <1>5, <1>6, ReplyStep

(* The server writes bits.                                                    *)
LEMMA ReplyWriteBitsStep == ASSUME IInv, ReplyWriteBits PROVE IInv'
<1> DEFINE fn == MODBUS_FC_WRITE_MULTIPLE_COILS
           legal == req.nb \in 1..MODBUS_MAX_WRITE_BITS /\ req.nb <= 8 * req.count
           inside == Inside("bits", req.addr, req.nb)
           v == GetBits(req.data, req.nb)
           tables == Store("bits", req.addr, req.nb, v)
<1>1. Reply(fn, legal, inside, Written, tables)
  BY DEF ReplyWriteBits
<1>2. /\ IsMessage(req) /\ req.fn = fn /\ mapping \in Mappings
      /\ backend \in {"tcp", "rtu"} /\ req.addr \in Nat /\ req.nb \in Nat
  BY <1>1, AtIndication DEF Reply
<1>3. fn \in Functions /\ fn \in {15, 16}
  BY DEF Functions, WriteMultipleFns, MODBUS_FC_WRITE_MULTIPLE_COILS
<1>4. v \in [0..(req.nb - 1) -> BOOLEAN]
  BY <1>2, GetBitsType
<1> HIDE DEF fn, legal, inside, v
<1>5. tables \in Mappings
  BY <1>2, <1>4, StoreBitsType
<1>6. WholeReply(Written)
  BY <1>2, <1>3, WrittenWhole
<1> HIDE DEF tables
<1> QED
  BY <1>1, <1>3, <1>5, <1>6, ReplyStep

(* The server writes registers.                                               *)
LEMMA ReplyWriteRegistersStep == ASSUME IInv, ReplyWriteRegisters PROVE IInv'
<1> DEFINE fn == MODBUS_FC_WRITE_MULTIPLE_REGISTERS
           legal == req.nb \in 1..MODBUS_MAX_WRITE_REGISTERS
                    /\ req.count = 2 * req.nb
           inside == Inside("registers", req.addr, req.nb)
           v == GetWords(req.data, req.nb)
           tables == Store("registers", req.addr, req.nb, v)
<1>1. Reply(fn, legal, inside, Written, tables)
  BY DEF ReplyWriteRegisters
<1>2. /\ IsMessage(req) /\ req.fn = fn /\ mapping \in Mappings
      /\ backend \in {"tcp", "rtu"} /\ req.addr \in Nat /\ req.nb \in Nat
  BY <1>1, AtIndication DEF Reply
<1>3. fn \in Functions /\ fn \in {15, 16}
  BY DEF Functions, WriteMultipleFns, MODBUS_FC_WRITE_MULTIPLE_REGISTERS
<1>4. v \in [0..(req.nb - 1) -> Word]
  BY <1>2, GetWordsType
<1> HIDE DEF fn, legal, inside, v
<1>5. tables \in Mappings
  BY <1>2, <1>4, StoreRegistersType
<1>6. WholeReply(Written)
  BY <1>2, <1>3, WrittenWhole
<1> HIDE DEF tables
<1> QED
  BY <1>1, <1>3, <1>5, <1>6, ReplyStep

(* The server writes registers and reads some back.                           *)
LEMMA ReplyWriteAndReadStep ==
    ASSUME IInv, ReplyWriteAndReadRegisters PROVE IInv'
<1> DEFINE fn == MODBUS_FC_WRITE_AND_READ_REGISTERS
           legal == /\ req.wnb \in 1..MODBUS_MAX_WR_WRITE_REGISTERS
                    /\ req.nb \in 1..MODBUS_MAX_WR_READ_REGISTERS
                    /\ req.count = 2 * req.wnb
           inside == /\ Inside("registers", req.addr, req.nb)
                     /\ Inside("registers", req.waddr, req.wnb)
           v == GetWords(req.data, req.wnb)
           m == RegistersResponse("registers", WriteFirst)
<1>1. Reply(fn, legal, inside, m, WriteFirst)
  BY DEF ReplyWriteAndReadRegisters, ReplyWriteAndRead
<1>2. /\ IsMessage(req) /\ req.fn = fn /\ mapping \in Mappings
      /\ backend \in {"tcp", "rtu"} /\ req.waddr \in Nat /\ req.wnb \in Nat
  BY <1>1, AtIndication DEF Reply
<1>3. fn \in Functions /\ fn \in ReadRegistersFns
  BY DEF Functions, ReadRegistersFns
<1>4. WriteFirst \in Mappings
  BY <1>2, GetWordsType, StoreRegistersType DEF WriteFirst
<1>5. ASSUME legal PROVE WholeReply(m)
  <2>1. req.nb <= 125
    BY <1>5 DEF MODBUS_MAX_WR_READ_REGISTERS
  <2> QED
    BY <1>2, <1>3, <2>1, RegistersResponseWhole
<1> HIDE DEF fn, legal, inside, m
<1> QED
  BY <1>1, <1>3, <1>4, <1>5, ReplyStep

(* The server describes itself.                                               *)
LEMMA ReplyReportStep == ASSUME IInv, ReplyReportSlaveId PROVE IInv'
<1> DEFINE fn == MODBUS_FC_REPORT_SLAVE_ID
           m == [ResponseBasis(req.fn) EXCEPT
                   !.count  = Len(Identity) % 256,
                   !.data   = [k \in 0..(Len(Identity) - 1) |-> Identity[k + 1]],
                   !.length = @ + 1 + Len(Identity)]
<1>1. Reply(fn, TRUE, TRUE, m, mapping)
  BY DEF ReplyReportSlaveId
<1>2. /\ IsMessage(req) /\ req.fn = fn /\ mapping \in Mappings
      /\ backend \in {"tcp", "rtu"}
  BY <1>1, AtIndication DEF Reply
<1>3. fn \in Functions
  BY DEF Functions
<1>4. WholeReply(m)
  BY <1>2, IdentityWhole
<1> HIDE DEF fn, m
<1> QED
  BY <1>1, <1>2, <1>3, <1>4, ReplyStep

(* The end of a call leaves nothing on the line.                              *)
LEMMA EndStep == ASSUME IInv, Confirm \/ TimeOut PROVE IInv'
<1>1. /\ phase' = "idle" /\ UNCHANGED <<backend, mapping, calls>>
  BY DEF Confirm, TimeOut
<1> QED
  BY <1>1 DEF IInv, TypeOK, FramesWhole, Mappings

(* Nothing changes.                                                           *)
LEMMA StutterStep == ASSUME IInv, UNCHANGED vars PROVE IInv'
<1>1. /\ backend' = backend /\ mapping' = mapping /\ phase' = phase
      /\ req' = req /\ rsp' = rsp /\ calls' = calls
  BY DEF vars
<1>2. /\ IndicationLength(req)' = IndicationLength(req)
      /\ ConfirmationLength(rsp)' = ConfirmationLength(rsp)
      /\ MaxAduLength' = MaxAduLength
  BY <1>1 DEF IndicationLength, ConfirmationLength, DataLengthOfIndication,
              DataLengthOfConfirmation, HeaderLength, ChecksumLength,
              MaxAduLength
<1>3. IsMessage(req)' = IsMessage(req) /\ IsMessage(rsp)' = IsMessage(rsp)
  BY <1>1 DEF IsMessage, Message
<1>4. TypeOK'
  BY <1>1, <1>3 DEF IInv, TypeOK, Mappings
<1>5. FramesWhole'
  BY <1>1, <1>2 DEF IInv, FramesWhole
<1> QED
  BY <1>4, <1>5 DEF IInv

(* Every step keeps the invariant.                                            *)
LEMMA NextStep == ASSUME IInv, Next PROVE IInv'
<1>1. CASE ClientNext
  BY <1>1, ReadsStep, WriteBitStep, WriteRegisterStep, WriteBitsStep,
     WriteRegistersStep, MaskWriteStep, WriteAndReadStep, ReportStep, EndStep
     DEF ClientNext
<1>2. CASE ServerNext
  <2>1. /\ MODBUS_FC_READ_COILS \in ReadBitsFns
        /\ MODBUS_FC_READ_DISCRETE_INPUTS \in ReadBitsFns
        /\ MODBUS_FC_READ_HOLDING_REGISTERS \in ReadRegistersFns
        /\ MODBUS_FC_READ_INPUT_REGISTERS \in ReadRegistersFns
    BY DEF ReadBitsFns, ReadRegistersFns
  <2> QED
    BY <1>2, <2>1, ReplyReadBitsStep, ReplyReadRegistersStep,
       ReplyWriteBitStep, ReplyWriteRegisterStep, ReplyWriteBitsStep,
       ReplyWriteRegistersStep, ReplyMaskWriteStep, ReplyWriteAndReadStep,
       ReplyReportStep DEF ServerNext
<1> QED
  BY <1>1, <1>2 DEF Next

(* The invariant at the start.                                                *)
LEMMA InitHolds == ASSUME Init PROVE IInv
<1>1. PICK b \in BitTables, w \in WordTables :
        mapping = [t \in Tables |-> IF t \in {"bits", "input_bits"} THEN b ELSE w]
  BY DEF Init
<1>2. /\ b \in [0..(Size["bits"] - 1) -> BOOLEAN]
      /\ b \in [0..(Size["input_bits"] - 1) -> BOOLEAN]
      /\ w \in [0..(Size["registers"] - 1) -> Word]
      /\ w \in [0..(Size["input_registers"] - 1) -> Word]
  BY ConstantsAssumption, Zenon
<1>3. mapping \in Mappings
  BY <1>1, <1>2 DEF Mappings, Tables
<1>4. /\ backend \in {"tcp", "rtu"} /\ phase = "idle" /\ calls = 0
  BY DEF Init
<1>5. calls \in 0..MaxCalls
  BY <1>4, ConstantsAssumption
<1> QED
  BY <1>3, <1>4, <1>5 DEF IInv, TypeOK, FramesWhole

-----------------------------------------------------------------------------
(* IInv is inductive: the tables keep their widths because what is taken out  *)
(* of a message has the width of its table, and a message is whole because    *)
(* the bytes put into it were counted with its length.                        *)
THEOREM InvariantHolds == Spec => []IInv
<1>1. Init => IInv
  BY InitHolds
<1>2. IInv /\ [Next]_vars => IInv'
  BY NextStep, StutterStep
<1> QED
  BY <1>1, <1>2, PTL DEF Spec

(* Whatever is written and in whatever order, modbus_reply leaves every table *)
(* with as many values, of the same width, as modbus_mapping_new gave it, and *)
(* both ends make messages of bytes only.                                     *)
THEOREM TypeCorrect == Spec => []TypeOK
<1>1. IInv => TypeOK
  BY DEF IInv
<1> QED
  BY <1>1, InvariantHolds, PTL

(* For every address, every number of values and every size of the tables, the*)
(* length the receiver computes from a function code and a byte count         *)
(* (compute_meta_length_after_function, compute_data_length_after_meta) is the*)
(* number of bytes sent, and no message is longer than an ADU.                *)
THEOREM MessagesWhole == Spec => []FramesWhole
<1>1. IInv => FramesWhole
  BY DEF IInv
<1> QED
  BY <1>1, InvariantHolds, PTL

-----------------------------------------------------------------------------
(* The refinement of RegisterService: what is put into a message is taken out *)
(* of it unchanged.                                                           *)

(* MODBUS_GET_HIGH_BYTE and MODBUS_GET_LOW_BYTE cut a register in two.        *)
LEMMA JoinParts == ASSUME NEW w \in Word PROVE Join(Hi(w), Lo(w)) = w
<1>1. ASSUME NEW x PROVE x \in Join(Hi(w), Lo(w)) <=> x \in w
  <2>1. CASE x \in 0..7
    BY <2>1 DEF Join, Lo
  <2>2. CASE x \in 8..15
    <3>1. x - 8 \in 0..7 /\ x - 8 + 8 = x
      BY <2>2
    <3>2. x - 8 \in Hi(w) <=> x \in w
      BY <3>1 DEF Hi
    <3> QED
      BY <2>2, <3>2 DEF Join
  <2>3. CASE x \notin (0..7) \cup (8..15)
    <3>1. x \notin Join(Hi(w), Lo(w))
      BY <2>3 DEF Join
    <3>2. 0..15 = (0..7) \cup (8..15)
      OBVIOUS
    <3> QED
      BY <2>3, <3>1, <3>2 DEF Word
  <2> QED
    BY <2>1, <2>2, <2>3
<1> QED
  BY <1>1

(* Registers put into a message are taken out of it unchanged.                *)
LEMMA WordsThrough ==
    ASSUME NEW a, NEW from \in Int, NEW n \in Nat,
           \A k \in 0..(n - 1) : a[from + k] \in Word
    PROVE  GetWords(PutWords(a, from, n), n) = [k \in 0..(n - 1) |-> a[from + k]]
<1> DEFINE data == PutWords(a, from, n)
<1>1. ASSUME NEW k \in 0..(n - 1) PROVE Join(data[2 * k], data[2 * k + 1]) = a[from + k]
  <2>1. /\ 2 * k \in 0..(2 * n - 1) /\ 2 * k + 1 \in 0..(2 * n - 1)
        /\ (2 * k) % 2 = 0 /\ (2 * k + 1) % 2 # 0
        /\ (2 * k) \div 2 = k /\ (2 * k + 1) \div 2 = k
    OBVIOUS
  <2>2. data[2 * k] = Hi(a[from + k]) /\ data[2 * k + 1] = Lo(a[from + k])
    BY <2>1 DEF PutWords
  <2> QED
    BY <2>2, JoinParts
<1> HIDE DEF data
<1>2. GetWords(data, n) = [k \in 0..(n - 1) |-> a[from + k]]
  BY <1>1 DEF GetWords
<1> QED
  BY <1>2 DEF data

(* A bit put into a message is found where it is looked for.                  *)
LEMMA BitThrough ==
    ASSUME NEW a, NEW from \in Int, NEW n \in Nat, NEW k \in 0..(n - 1),
           a[from + k] \in BOOLEAN
    PROVE  (k % 8 \in PutBits(a, from, n)[k \div 8]) = a[from + k]
<1> DEFINE data == PutBits(a, from, n)
           byte == k \div 8
           bit == k % 8
<1>1. /\ byte \in 0..(BytesOfBits(n) - 1) /\ bit \in 0..7
      /\ 8 * byte + bit = k /\ k < n
  BY DEF BytesOfBits
<1>2. data[byte] = {b \in 0..7 : 8 * byte + b < n /\ a[from + 8 * byte + b]}
  BY <1>1 DEF PutBits
<1>3. from + 8 * byte + bit = from + k
  BY <1>1
<1> HIDE DEF data, byte, bit
<1>4. bit \in data[byte] <=> a[from + 8 * byte + bit]
  <2>1. bit \in data[byte] <=> bit \in 0..7 /\ 8 * byte + bit < n
                               /\ a[from + 8 * byte + bit]
    BY <1>2, Zenon
  <2> QED
    BY <1>1, <2>1, Zenon
<1>5. bit \in data[byte] <=> a[from + k]
  BY <1>3, <1>4
<1>6. (bit \in data[byte]) = a[from + k]
  BY <1>5
<1> QED
  BY <1>6 DEF data, byte, bit

(* Bits put into a message are taken out of it unchanged.                     *)
LEMMA BitsThrough ==
    ASSUME NEW a, NEW from \in Int, NEW n \in Nat,
           \A k \in 0..(n - 1) : a[from + k] \in BOOLEAN
    PROVE  GetBits(PutBits(a, from, n), n) = [k \in 0..(n - 1) |-> a[from + k]]
<1>1. \A k \in 0..(n - 1) :
        (k % 8 \in PutBits(a, from, n)[k \div 8]) = a[from + k]
  BY BitThrough
<1> QED
  BY <1>1, Zenon DEF GetBits

-----------------------------------------------------------------------------
(* The calls by what they do, and the function code each is sent with.        *)
BitReads == {"read_bits", "read_input_bits"}

WordReads ==
    {"read_registers", "read_input_registers", "write_and_read_registers"}

Singles == {"write_bit", "write_register"}

Multiples == {"write_bits", "write_registers"}

Operations ==
    BitReads \cup WordReads \cup Singles \cup Multiples
    \cup {"mask_write_register", "report_slave_id"}

FunctionOf(op) ==
    CASE op = "read_bits"                -> MODBUS_FC_READ_COILS
      [] op = "read_input_bits"          -> MODBUS_FC_READ_DISCRETE_INPUTS
      [] op = "read_registers"           -> MODBUS_FC_READ_HOLDING_REGISTERS
      [] op = "read_input_registers"     -> MODBUS_FC_READ_INPUT_REGISTERS
      [] op = "write_bit"                -> MODBUS_FC_WRITE_SINGLE_COIL
      [] op = "write_register"           -> MODBUS_FC_WRITE_SINGLE_REGISTER
      [] op = "write_bits"               -> MODBUS_FC_WRITE_MULTIPLE_COILS
      [] op = "write_registers"          -> MODBUS_FC_WRITE_MULTIPLE_REGISTERS
      [] op = "report_slave_id"          -> MODBUS_FC_REPORT_SLAVE_ID
      [] op = "mask_write_register"      -> MODBUS_FC_MASK_WRITE_REGISTER
      [] op = "write_and_read_registers" -> MODBUS_FC_WRITE_AND_READ_REGISTERS

(* Request m asks for call c, and holds the values c writes.                  *)
Carries(c, m) ==
    /\ c.op \in Operations /\ m.fn = FunctionOf(c.op) /\ m.slave = c.slave
    /\ c.op \in BitReads \cup WordReads =>
           /\ c.addr \in Nat /\ c.nb \in Nat
           /\ m.addr = c.addr /\ m.nb = c.nb
    /\ c.op \in Service!Writes => c.waddr \in Nat /\ c.wnb \in Nat
    /\ c.op \in Singles \cup {"mask_write_register"} =>
           m.addr = c.waddr /\ c.wnb = 1
    /\ c.op \in Multiples => m.addr = c.waddr /\ m.nb = c.wnb
    /\ c.op = "write_and_read_registers" => m.waddr = c.waddr /\ m.wnb = c.wnb
    /\ c.op = "write_bit" => c.src[0] = (m.data[0] # {})
    /\ c.op = "write_register" =>
           c.src[0] \in Word /\ m.data = PutWords(c.src, 0, 1)
    /\ c.op = "mask_write_register" =>
           /\ c.src[0] \in Word /\ c.src[1] \in Word
           /\ m.data = PutWords(c.src, 0, 2)
    /\ c.op = "write_bits" =>
           /\ c.src \in [0..(Size["bits"] - 1) -> BOOLEAN]
           /\ m.data = PutBits(c.src, 0, c.wnb)
           /\ m.count = BytesOfBits(c.wnb)
    /\ c.op \in {"write_registers", "write_and_read_registers"} =>
           /\ c.src \in [0..(Size["registers"] - 1) -> Word]
           /\ m.data = PutWords(c.src, 0, c.wnb)
           /\ m.count = 2 * c.wnb
    /\ c.op = "report_slave_id" => c.nb \in Nat \ {0}

(* Response r answers request m of call c from the tables tabs.               *)
Answers(c, m, r, tabs) ==
    /\ r.fn = m.fn
    /\ c.op \in BitReads =>
           LET t == Service!ReadTable(c.op)
           IN  /\ r.count = BytesOfBits(c.nb)
               /\ r.data = PutBits(tabs[t], MappingAddress(t, c.addr), c.nb)
    /\ c.op \in WordReads =>
           LET t == Service!ReadTable(c.op)
           IN  /\ r.count = 2 * c.nb
               /\ r.data = PutWords(tabs[t], MappingAddress(t, c.addr), c.nb)
    /\ c.op \in Singles => r.addr = m.addr /\ r.data = m.data
    /\ c.op \in Multiples => r.addr = m.addr /\ r.nb = m.nb
    /\ c.op = "report_slave_id" =>
           /\ r.count = Len(Identity)
           /\ r.data = [k \in 0..(Len(Identity) - 1) |-> Identity[k + 1]]

(* The request on the line is the one of the call.                            *)
Asked == phase # "idle" => Carries(call, req)

(* The reply is the answer when the call fits, an exception when it does not. *)
Outcome ==
    phase \in {"confirmation", "silence"} =>
        /\ phase = "silence" <=> Service!Broadcast(call)
        /\ rsp.fn >= 128 => ~Service!Fits(call)
        /\ rsp.fn < 128 =>
               /\ Service!Fits(call)
               /\ Answers(call, req, rsp, mapping)
               /\ call.op # "report_slave_id" => rsp.length = ResponseLength(req)

(* What one step of the library is to the service.                            *)
ServiceStep == Service!Next \/ UNCHANGED Service!vars

(* The inductive invariant of the refinement.                                 *)
RInv == IInv /\ Asked /\ Outcome

(* The function codes tell the calls apart.                                   *)
LEMMA Codes ==
    /\ MODBUS_FC_READ_COILS = 1 /\ MODBUS_FC_READ_DISCRETE_INPUTS = 2
    /\ MODBUS_FC_READ_HOLDING_REGISTERS = 3 /\ MODBUS_FC_READ_INPUT_REGISTERS = 4
    /\ MODBUS_FC_WRITE_SINGLE_COIL = 5 /\ MODBUS_FC_WRITE_SINGLE_REGISTER = 6
    /\ MODBUS_FC_WRITE_MULTIPLE_COILS = 15
    /\ MODBUS_FC_WRITE_MULTIPLE_REGISTERS = 16
    /\ MODBUS_FC_REPORT_SLAVE_ID = 17 /\ MODBUS_FC_MASK_WRITE_REGISTER = 22
    /\ MODBUS_FC_WRITE_AND_READ_REGISTERS = 23
BY DEF MODBUS_FC_READ_COILS, MODBUS_FC_READ_DISCRETE_INPUTS,
       MODBUS_FC_READ_HOLDING_REGISTERS, MODBUS_FC_READ_INPUT_REGISTERS,
       MODBUS_FC_WRITE_SINGLE_COIL, MODBUS_FC_WRITE_SINGLE_REGISTER,
       MODBUS_FC_WRITE_MULTIPLE_COILS, MODBUS_FC_WRITE_MULTIPLE_REGISTERS,
       MODBUS_FC_REPORT_SLAVE_ID, MODBUS_FC_MASK_WRITE_REGISTER,
       MODBUS_FC_WRITE_AND_READ_REGISTERS

(* The function code of each call.                                            *)
LEMMA CodeOfCall ==
    /\ FunctionOf("read_bits") = 1 /\ FunctionOf("read_input_bits") = 2
    /\ FunctionOf("read_registers") = 3 /\ FunctionOf("read_input_registers") = 4
    /\ FunctionOf("write_bit") = 5 /\ FunctionOf("write_register") = 6
    /\ FunctionOf("write_bits") = 15 /\ FunctionOf("write_registers") = 16
    /\ FunctionOf("report_slave_id") = 17
    /\ FunctionOf("mask_write_register") = 22
    /\ FunctionOf("write_and_read_registers") = 23
BY Codes DEF FunctionOf

(* A function code names one call.                                            *)
LEMMA CallOfCode ==
    ASSUME NEW op \in Operations
    PROVE  /\ FunctionOf(op) \in 1..127
           /\ FunctionOf(op) \in {1, 2} <=> op \in BitReads
           /\ FunctionOf(op) \in {3, 4, 23} <=> op \in WordReads
           /\ FunctionOf(op) \in {5, 6} <=> op \in Singles
           /\ FunctionOf(op) \in {15, 16} <=> op \in Multiples
           /\ FunctionOf(op) = 1 => op = "read_bits"
           /\ FunctionOf(op) = 2 => op = "read_input_bits"
           /\ FunctionOf(op) = 3 => op = "read_registers"
           /\ FunctionOf(op) = 4 => op = "read_input_registers"
           /\ FunctionOf(op) = 5 => op = "write_bit"
           /\ FunctionOf(op) = 6 => op = "write_register"
           /\ FunctionOf(op) = 15 => op = "write_bits"
           /\ FunctionOf(op) = 16 => op = "write_registers"
           /\ FunctionOf(op) = 17 <=> op = "report_slave_id"
           /\ FunctionOf(op) = 22 => op = "mask_write_register"
           /\ FunctionOf(op) = 23 => op = "write_and_read_registers"
BY CodeOfCall DEF Operations, BitReads, WordReads, Singles, Multiples

-----------------------------------------------------------------------------
(* A call is one step of the service: it is sent, or refused.                 *)

(* A call that is refused does not fit, and a request that is sent asks for   *)
(* the call: one step of the service.                                         *)
LEMMA RequestRefines ==
    ASSUME NEW c, NEW tooMany, NEW m, Request(c, tooMany, m),
           tooMany => ~Service!Fits(c),
           ~tooMany => Carries(c, WithChecksum(m))
    PROVE  Asked' /\ Outcome' /\ ServiceStep
<1>1. /\ phase = "idle" /\ call' = c
      /\ UNCHANGED <<backend, mapping, rsp, dest>>
  BY DEF Request
<1>2. serviceState = "idle"
  BY <1>1 DEF serviceState
<1>3. CASE tooMany /\ result' = -1 /\ UNCHANGED <<phase, req>>
  <2>1. phase' = "idle" /\ ~Service!Fits(call')
    BY <1>1, <1>3
  <2>2. serviceState' = "idle"
    BY <2>1 DEF serviceState
  <2>3. Service!Refuse
    BY <1>1, <1>2, <1>3, <2>1, <2>2 DEF Service!Refuse
  <2> QED
    BY <2>1, <2>3 DEF Asked, Outcome, ServiceStep, Service!Next
<1>4. CASE ~tooMany /\ phase' = "indication" /\ req' = WithChecksum(m)
           /\ UNCHANGED result
  <2>1. serviceState' = "called"
    BY <1>4 DEF serviceState
  <2>2. Service!Call
    BY <1>1, <1>2, <1>4, <2>1 DEF Service!Call
  <2>3. Carries(call', req')
    BY <1>1, <1>4
  <2>4. Asked'
    BY <2>3 DEF Asked, Carries
  <2> QED
    BY <1>4, <2>2, <2>4 DEF Outcome, ServiceStep, Service!Next
<1> QED
  BY <1>3, <1>4 DEF Request

(* Reads: nb is refused above the quantity of the protocol specification.     *)
LEMMA ReadRefines ==
    ASSUME NEW op \in BitReads \cup WordReads, op # "write_and_read_registers",
           NEW counts \in SUBSET Nat,
           ReadRequest(op, FunctionOf(op), counts, Service!ReadLimit(op))
    PROVE  Asked' /\ Outcome' /\ ServiceStep
<1>1. PICK slave \in Slaves, addr \in Addrs, nb \in counts :
        Request([op |-> op, slave |-> slave, addr |-> addr, nb |-> nb],
                nb > Service!ReadLimit(op),
                RequestBasis(FunctionOf(op), slave, addr, nb))
  BY DEF ReadRequest
<1> DEFINE c == [op |-> op, slave |-> slave, addr |-> addr, nb |-> nb]
           m == RequestBasis(FunctionOf(op), slave, addr, nb)
           tooMany == nb > Service!ReadLimit(op)
<1>2. addr \in Nat /\ nb \in Nat
  BY ConstantsAssumption
<1>3. op \in Operations /\ op \in Service!Reads /\ op \notin Service!Writes
  BY DEF Operations, Service!Reads, Service!Writes, BitReads, WordReads
<1>4. c.op = op /\ c.slave = slave /\ c.addr = addr /\ c.nb = nb
  OBVIOUS
<1>5. ASSUME tooMany PROVE ~Service!Fits(c)
  <2>1. Service!ReadLimit(op) \in Nat
    BY DEF Service!ReadLimit
  <2>2. nb \notin 1..Service!ReadLimit(op)
    BY <1>2, <1>5, <2>1
  <2> QED
    BY <1>3, <1>4, <2>2 DEF Service!Fits
<1>6. /\ WithChecksum(m).fn = FunctionOf(op) /\ WithChecksum(m).slave = slave
      /\ WithChecksum(m).addr = addr /\ WithChecksum(m).nb = nb
  BY DEF WithChecksum, RequestBasis
<1> HIDE DEF c, m
<1>7. Carries(c, WithChecksum(m))
  <2>1. op \notin Singles /\ op \notin Multiples
    BY DEF BitReads, WordReads, Singles, Multiples
  <2>2. op \notin {"write_bit", "write_register", "mask_write_register",
                   "write_bits", "write_registers", "report_slave_id",
                   "write_and_read_registers"}
    BY DEF BitReads, WordReads
  <2> QED
    BY <1>2, <1>3, <1>4, <1>6, <2>1, <2>2 DEF Carries
<1>8. Request(c, tooMany, m)
  BY <1>1 DEF c, m
<1> HIDE DEF tooMany
<1> QED
  BY <1>5, <1>7, <1>8, RequestRefines

(* The four reads, with the quantities the code checks.                       *)
LEMMA ReadsRefine ==
    ASSUME ReadBits \/ ReadInputBits \/ ReadRegisters \/ ReadInputRegisters
    PROVE  Asked' /\ Outcome' /\ ServiceStep
<1>1. BitCounts \in SUBSET Nat /\ WordCounts \in SUBSET Nat
  BY ConstantsAssumption
<1>2. CASE ReadBits
  <2>1. ReadRequest("read_bits", FunctionOf("read_bits"), BitCounts,
                    Service!ReadLimit("read_bits"))
    BY <1>2, Codes, CodeOfCall
       DEF ReadBits, MODBUS_MAX_READ_BITS, Service!ReadLimit
  <2> QED
    BY <1>1, <2>1, ReadRefines DEF BitReads
<1>3. CASE ReadInputBits
  <2>1. ReadRequest("read_input_bits", FunctionOf("read_input_bits"), BitCounts,
                    Service!ReadLimit("read_input_bits"))
    BY <1>3, Codes, CodeOfCall
       DEF ReadInputBits, MODBUS_MAX_READ_BITS, Service!ReadLimit
  <2> QED
    BY <1>1, <2>1, ReadRefines DEF BitReads
<1>4. CASE ReadRegisters
  <2>1. ReadRequest("read_registers", FunctionOf("read_registers"), WordCounts,
                    Service!ReadLimit("read_registers"))
    BY <1>4, Codes, CodeOfCall
       DEF ReadRegisters, MODBUS_MAX_READ_REGISTERS, Service!ReadLimit
  <2> QED
    BY <1>1, <2>1, ReadRefines DEF WordReads
<1>5. CASE ReadInputRegisters
  <2>1. ReadRequest("read_input_registers", FunctionOf("read_input_registers"),
                    WordCounts, Service!ReadLimit("read_input_registers"))
    BY <1>5, Codes, CodeOfCall
       DEF ReadInputRegisters, MODBUS_MAX_READ_REGISTERS, Service!ReadLimit
  <2> QED
    BY <1>1, <2>1, ReadRefines DEF WordReads
<1> QED
  BY <1>2, <1>3, <1>4, <1>5

(* A single bit: 0xFF00 or 0.                                                 *)
LEMMA WriteBitRefines ==
    ASSUME WriteBit PROVE Asked' /\ Outcome' /\ ServiceStep
<1>1. PICK slave \in Slaves, addr \in Addrs, status \in BOOLEAN :
        Request([op |-> "write_bit", slave |-> slave, waddr |-> addr, wnb |-> 1,
                 src |-> [i \in {0} |-> status]],
                FALSE,
                [RequestBasis(MODBUS_FC_WRITE_SINGLE_COIL, slave, addr, 0) EXCEPT
                    !.data = [k \in 0..1 |->
                                IF status /\ k = 0 THEN 0..7 ELSE {}]])
  BY DEF WriteBit
<1> DEFINE data == [k \in 0..1 |-> IF status /\ k = 0 THEN 0..7 ELSE {}]
           src == [i \in {0} |-> status]
           c == [op |-> "write_bit", slave |-> slave, waddr |-> addr,
                 wnb |-> 1, src |-> src]
           m == [RequestBasis(MODBUS_FC_WRITE_SINGLE_COIL, slave, addr, 0)
                   EXCEPT !.data = data]
<1>2. addr \in Nat
  BY ConstantsAssumption
<1>3. src[0] = (data[0] # {})
  <2>1. src[0] = status
    OBVIOUS
  <2>2. 0 \in 0..7 /\ data[0] = IF status THEN 0..7 ELSE {}
    OBVIOUS
  <2>3. data[0] # {} <=> status
    BY <2>2
  <2> QED
    BY <2>1, <2>3
<1> HIDE DEF data, src
<1>4. /\ c.op = "write_bit" /\ c.slave = slave /\ c.waddr = addr /\ c.wnb = 1
      /\ c.src = src
  OBVIOUS
<1>5. /\ WithChecksum(m).fn = FunctionOf("write_bit")
      /\ WithChecksum(m).slave = slave /\ WithChecksum(m).addr = addr
      /\ WithChecksum(m).data = data
  BY Codes, CodeOfCall DEF WithChecksum, RequestBasis
<1>6. Request(c, FALSE, m)
  BY <1>1 DEF data, src
<1> HIDE DEF c, m
<1>7. Carries(c, WithChecksum(m))
  BY <1>2, <1>3, <1>4, <1>5
     DEF Carries, Operations, BitReads, WordReads, Singles, Multiples
<1> QED
  BY <1>6, <1>7, RequestRefines

(* A single register.                                                         *)
LEMMA WriteRegisterRefines ==
    ASSUME WriteRegister PROVE Asked' /\ Outcome' /\ ServiceStep
<1>1. PICK slave \in Slaves, addr \in Addrs, value \in Words :
        Request([op |-> "write_register", slave |-> slave, waddr |-> addr,
                 wnb |-> 1, src |-> [i \in {0} |-> value]],
                FALSE,
                [RequestBasis(MODBUS_FC_WRITE_SINGLE_REGISTER, slave, addr, 0)
                    EXCEPT !.data = PutWords([i \in {0} |-> value], 0, 1)])
  BY DEF WriteRegister
<1> DEFINE src == [i \in {0} |-> value]
           c == [op |-> "write_register", slave |-> slave, waddr |-> addr,
                 wnb |-> 1, src |-> src]
           m == [RequestBasis(MODBUS_FC_WRITE_SINGLE_REGISTER, slave, addr, 0)
                   EXCEPT !.data = PutWords(src, 0, 1)]
<1>2. addr \in Nat /\ src[0] \in Word
  BY ConstantsAssumption
<1> HIDE DEF src
<1>4. /\ c.op = "write_register" /\ c.slave = slave /\ c.waddr = addr
      /\ c.wnb = 1 /\ c.src = src
  OBVIOUS
<1>5. /\ WithChecksum(m).fn = FunctionOf("write_register")
      /\ WithChecksum(m).slave = slave /\ WithChecksum(m).addr = addr
      /\ WithChecksum(m).data = PutWords(src, 0, 1)
  BY Codes, CodeOfCall DEF WithChecksum, RequestBasis
<1>6. Request(c, FALSE, m)
  BY <1>1 DEF src
<1> HIDE DEF c, m
<1>7. Carries(c, WithChecksum(m))
  BY <1>2, <1>4, <1>5
     DEF Carries, Operations, BitReads, WordReads, Singles, Multiples
<1> QED
  BY <1>6, <1>7, RequestRefines

(* Both masks.                                                                *)
LEMMA MaskWriteRefines ==
    ASSUME MaskWriteRegister PROVE Asked' /\ Outcome' /\ ServiceStep
<1>1. PICK slave \in Slaves, addr \in Addrs, and_mask \in Words, or_mask \in Words :
        Request([op |-> "mask_write_register", slave |-> slave, waddr |-> addr,
                 wnb |-> 1,
                 src |-> [i \in 0..1 |-> IF i = 0 THEN and_mask ELSE or_mask]],
                FALSE,
                [RequestBasis(MODBUS_FC_MASK_WRITE_REGISTER, slave, addr, 0)
                    EXCEPT !.data = PutWords([i \in 0..1 |->
                                        IF i = 0 THEN and_mask ELSE or_mask], 0, 2),
                           !.length = @ - 2 + 4])
  BY DEF MaskWriteRegister
<1> DEFINE src == [i \in 0..1 |-> IF i = 0 THEN and_mask ELSE or_mask]
           c == [op |-> "mask_write_register", slave |-> slave, waddr |-> addr,
                 wnb |-> 1, src |-> src]
           m == [RequestBasis(MODBUS_FC_MASK_WRITE_REGISTER, slave, addr, 0)
                   EXCEPT !.data = PutWords(src, 0, 2), !.length = @ - 2 + 4]
<1>2. addr \in Nat /\ src[0] \in Word /\ src[1] \in Word
  BY ConstantsAssumption
<1> HIDE DEF src
<1>4. /\ c.op = "mask_write_register" /\ c.slave = slave /\ c.waddr = addr
      /\ c.wnb = 1 /\ c.src = src
  OBVIOUS
<1>5. /\ WithChecksum(m).fn = FunctionOf("mask_write_register")
      /\ WithChecksum(m).slave = slave /\ WithChecksum(m).addr = addr
      /\ WithChecksum(m).data = PutWords(src, 0, 2)
  BY Codes, CodeOfCall DEF WithChecksum, RequestBasis
<1>6. Request(c, FALSE, m)
  BY <1>1 DEF src
<1> HIDE DEF c, m
<1>7. Carries(c, WithChecksum(m))
  BY <1>2, <1>4, <1>5
     DEF Carries, Operations, BitReads, WordReads, Singles, Multiples
<1> QED
  BY <1>6, <1>7, RequestRefines

(* Many bits: the byte count is not cut off, for nb is bounded from above.    *)
LEMMA WriteBitsRefines ==
    ASSUME WriteBits PROVE Asked' /\ Outcome' /\ ServiceStep
<1>1. PICK slave \in Slaves, addr \in Addrs, nb \in BitCounts,
           src \in BitTables :
        Request([op |-> "write_bits", slave |-> slave, waddr |-> addr,
                 wnb |-> nb, src |-> src],
                nb > MODBUS_MAX_WRITE_BITS,
                [RequestBasis(MODBUS_FC_WRITE_MULTIPLE_COILS, slave, addr, nb)
                    EXCEPT !.count  = BytesOfBits(nb) % 256,
                           !.data   = PutBits(src, 0, nb),
                           !.length = @ + 1 + BytesOfBits(nb)])
  BY DEF WriteBits
<1> DEFINE c == [op |-> "write_bits", slave |-> slave, waddr |-> addr,
                 wnb |-> nb, src |-> src]
           m == [RequestBasis(MODBUS_FC_WRITE_MULTIPLE_COILS, slave, addr, nb)
                    EXCEPT !.count  = BytesOfBits(nb) % 256,
                           !.data   = PutBits(src, 0, nb),
                           !.length = @ + 1 + BytesOfBits(nb)]
           tooMany == nb > MODBUS_MAX_WRITE_BITS
<1>2. addr \in Nat /\ nb \in Nat /\ src \in [0..(Size["bits"] - 1) -> BOOLEAN]
  BY ConstantsAssumption
<1>3. /\ c.op = "write_bits" /\ c.slave = slave /\ c.waddr = addr
      /\ c.wnb = nb /\ c.src = src
  OBVIOUS
<1>4. /\ WithChecksum(m).fn = FunctionOf("write_bits")
      /\ WithChecksum(m).slave = slave /\ WithChecksum(m).addr = addr
      /\ WithChecksum(m).nb = nb /\ WithChecksum(m).data = PutBits(src, 0, nb)
      /\ WithChecksum(m).count = BytesOfBits(nb) % 256
  BY Codes, CodeOfCall DEF WithChecksum, RequestBasis
<1>5. Request(c, tooMany, m)
  BY <1>1
<1> HIDE DEF c, m
<1>6. ASSUME tooMany PROVE ~Service!Fits(c)
  <2>1. Service!WriteLimit("write_bits") = MODBUS_MAX_WRITE_BITS
    BY DEF Service!WriteLimit, MODBUS_MAX_WRITE_BITS
  <2>2. nb \notin 1..MODBUS_MAX_WRITE_BITS
    BY <1>2, <1>6, Limits, BeyondLimit
  <2> QED
    BY <1>3, <2>1, <2>2 DEF Service!Fits, Service!Writes
<1>7. ASSUME ~tooMany PROVE Carries(c, WithChecksum(m))
  <2>1. BytesOfBits(nb) % 256 = BytesOfBits(nb)
    BY <1>2, <1>7, WriteBitsBound
  <2> QED
    BY <1>2, <1>3, <1>4, <2>1
       DEF Carries, Operations, BitReads, WordReads, Singles, Multiples
<1> HIDE DEF tooMany
<1> QED
  BY <1>5, <1>6, <1>7, RequestRefines

(* Many registers.                                                            *)
LEMMA WriteRegistersRefines ==
    ASSUME WriteRegisters PROVE Asked' /\ Outcome' /\ ServiceStep
<1>1. PICK slave \in Slaves, addr \in Addrs, nb \in WordCounts,
           src \in WordTables :
        Request([op |-> "write_registers", slave |-> slave, waddr |-> addr,
                 wnb |-> nb, src |-> src],
                nb > MODBUS_MAX_WRITE_REGISTERS,
                [RequestBasis(MODBUS_FC_WRITE_MULTIPLE_REGISTERS, slave, addr, nb)
                    EXCEPT !.count  = (2 * nb) % 256,
                           !.data   = PutWords(src, 0, nb),
                           !.length = @ + 1 + 2 * nb])
  BY DEF WriteRegisters
<1> DEFINE c == [op |-> "write_registers", slave |-> slave, waddr |-> addr,
                 wnb |-> nb, src |-> src]
           m == [RequestBasis(MODBUS_FC_WRITE_MULTIPLE_REGISTERS, slave, addr, nb)
                    EXCEPT !.count  = (2 * nb) % 256,
                           !.data   = PutWords(src, 0, nb),
                           !.length = @ + 1 + 2 * nb]
           tooMany == nb > MODBUS_MAX_WRITE_REGISTERS
<1>2. /\ addr \in Nat /\ nb \in Nat
      /\ src \in [0..(Size["registers"] - 1) -> Word]
  BY ConstantsAssumption
<1>3. /\ c.op = "write_registers" /\ c.slave = slave /\ c.waddr = addr
      /\ c.wnb = nb /\ c.src = src
  OBVIOUS
<1>4. /\ WithChecksum(m).fn = FunctionOf("write_registers")
      /\ WithChecksum(m).slave = slave /\ WithChecksum(m).addr = addr
      /\ WithChecksum(m).nb = nb /\ WithChecksum(m).data = PutWords(src, 0, nb)
      /\ WithChecksum(m).count = (2 * nb) % 256
  BY Codes, CodeOfCall DEF WithChecksum, RequestBasis
<1>5. Request(c, tooMany, m)
  BY <1>1
<1> HIDE DEF c, m
<1>6. ASSUME tooMany PROVE ~Service!Fits(c)
  <2>1. Service!WriteLimit("write_registers") = MODBUS_MAX_WRITE_REGISTERS
    BY DEF Service!WriteLimit, MODBUS_MAX_WRITE_REGISTERS
  <2>2. nb \notin 1..MODBUS_MAX_WRITE_REGISTERS
    BY <1>2, <1>6 DEF MODBUS_MAX_WRITE_REGISTERS
  <2> QED
    BY <1>3, <2>1, <2>2 DEF Service!Fits, Service!Writes
<1>7. ASSUME ~tooMany PROVE Carries(c, WithChecksum(m))
  <2>1. (2 * nb) % 256 = 2 * nb
    BY <1>2, <1>7 DEF MODBUS_MAX_WRITE_REGISTERS
  <2> QED
    BY <1>2, <1>3, <1>4, <2>1
       DEF Carries, Operations, BitReads, WordReads, Singles, Multiples
<1> HIDE DEF tooMany
<1> QED
  BY <1>5, <1>6, <1>7, RequestRefines

(* Many registers, and the ones to read back.                                 *)
LEMMA WriteAndReadRefines ==
    ASSUME WriteAndReadRegisters PROVE Asked' /\ Outcome' /\ ServiceStep
<1>1. PICK slave \in Slaves, waddr \in Addrs, addr \in Addrs,
           wnb \in WordCounts, nb \in WordCounts, src \in WordTables :
        Request([op |-> "write_and_read_registers", slave |-> slave,
                 addr |-> addr, nb |-> nb, waddr |-> waddr, wnb |-> wnb,
                 src |-> src],
                \/ wnb > MODBUS_MAX_WR_WRITE_REGISTERS
                \/ nb > MODBUS_MAX_WR_READ_REGISTERS,
                [RequestBasis(MODBUS_FC_WRITE_AND_READ_REGISTERS, slave, addr, nb)
                    EXCEPT !.waddr  = waddr,
                           !.wnb    = wnb,
                           !.count  = (2 * wnb) % 256,
                           !.data   = PutWords(src, 0, wnb),
                           !.length = @ + 5 + 2 * wnb])
  BY DEF WriteAndReadRegisters
<1> DEFINE c == [op |-> "write_and_read_registers", slave |-> slave,
                 addr |-> addr, nb |-> nb, waddr |-> waddr, wnb |-> wnb,
                 src |-> src]
           m == [RequestBasis(MODBUS_FC_WRITE_AND_READ_REGISTERS, slave, addr, nb)
                    EXCEPT !.waddr  = waddr,
                           !.wnb    = wnb,
                           !.count  = (2 * wnb) % 256,
                           !.data   = PutWords(src, 0, wnb),
                           !.length = @ + 5 + 2 * wnb]
           tooMany == \/ wnb > MODBUS_MAX_WR_WRITE_REGISTERS
                      \/ nb > MODBUS_MAX_WR_READ_REGISTERS
<1>2. /\ addr \in Nat /\ nb \in Nat /\ waddr \in Nat /\ wnb \in Nat
      /\ src \in [0..(Size["registers"] - 1) -> Word]
  BY ConstantsAssumption
<1>3. /\ c.op = "write_and_read_registers" /\ c.slave = slave
      /\ c.addr = addr /\ c.nb = nb /\ c.waddr = waddr /\ c.wnb = wnb
      /\ c.src = src
  OBVIOUS
<1>4. /\ WithChecksum(m).fn = FunctionOf("write_and_read_registers")
      /\ WithChecksum(m).slave = slave
      /\ WithChecksum(m).addr = addr /\ WithChecksum(m).nb = nb
      /\ WithChecksum(m).waddr = waddr /\ WithChecksum(m).wnb = wnb
      /\ WithChecksum(m).data = PutWords(src, 0, wnb)
      /\ WithChecksum(m).count = (2 * wnb) % 256
  BY Codes, CodeOfCall DEF WithChecksum, RequestBasis
<1>5. Request(c, tooMany, m)
  BY <1>1
<1> HIDE DEF c, m
<1>6. ASSUME tooMany PROVE ~Service!Fits(c)
  <2>1. /\ Service!WriteLimit("write_and_read_registers")
                = MODBUS_MAX_WR_WRITE_REGISTERS
        /\ Service!ReadLimit("write_and_read_registers")
                = MODBUS_MAX_WR_READ_REGISTERS
    BY DEF Service!WriteLimit, Service!ReadLimit,
           MODBUS_MAX_WR_WRITE_REGISTERS, MODBUS_MAX_WR_READ_REGISTERS
  <2>2. \/ wnb \notin 1..MODBUS_MAX_WR_WRITE_REGISTERS
        \/ nb \notin 1..MODBUS_MAX_WR_READ_REGISTERS
    BY <1>2, <1>6
       DEF MODBUS_MAX_WR_WRITE_REGISTERS, MODBUS_MAX_WR_READ_REGISTERS
  <2> QED
    BY <1>3, <2>1, <2>2 DEF Service!Fits, Service!Writes, Service!Reads
<1>7. ASSUME ~tooMany PROVE Carries(c, WithChecksum(m))
  <2>1. (2 * wnb) % 256 = 2 * wnb
    BY <1>2, <1>7 DEF MODBUS_MAX_WR_WRITE_REGISTERS
  <2> QED
    BY <1>2, <1>3, <1>4, <2>1
       DEF Carries, Operations, BitReads, WordReads, Singles, Multiples
<1> HIDE DEF tooMany
<1> QED
  BY <1>5, <1>6, <1>7, RequestRefines

(* The bytes a device describes itself with.                                  *)
LEMMA ReportRefines ==
    ASSUME ReportSlaveId PROVE Asked' /\ Outcome' /\ ServiceStep
<1>1. PICK slave \in Slaves, max_dest \in WordCounts :
        Request([op |-> "report_slave_id", slave |-> slave, nb |-> max_dest],
                max_dest <= 0,
                [RequestBasis(MODBUS_FC_REPORT_SLAVE_ID, slave, 0, 0)
                    EXCEPT !.length = @ - 4])
  BY DEF ReportSlaveId
<1> DEFINE c == [op |-> "report_slave_id", slave |-> slave, nb |-> max_dest]
           m == [RequestBasis(MODBUS_FC_REPORT_SLAVE_ID, slave, 0, 0)
                    EXCEPT !.length = @ - 4]
           tooMany == max_dest <= 0
<1>2. max_dest \in Nat
  BY ConstantsAssumption
<1>3. c.op = "report_slave_id" /\ c.slave = slave /\ c.nb = max_dest
  OBVIOUS
<1>4. /\ WithChecksum(m).fn = FunctionOf("report_slave_id")
      /\ WithChecksum(m).slave = slave
  BY Codes, CodeOfCall DEF WithChecksum, RequestBasis
<1>5. Request(c, tooMany, m)
  BY <1>1
<1> HIDE DEF c, m
<1>6. ASSUME tooMany PROVE ~Service!Fits(c)
  BY <1>2, <1>3, <1>6 DEF Service!Fits
<1>7. ASSUME ~tooMany PROVE Carries(c, WithChecksum(m))
  <2>1. c.nb \in Nat \ {0}
    BY <1>2, <1>3, <1>7
  <2> QED
    BY <1>3, <1>4, <2>1
       DEF Carries, Operations, BitReads, WordReads, Singles, Multiples,
           Service!Writes
<1> HIDE DEF tooMany
<1> QED
  BY <1>5, <1>6, <1>7, RequestRefines

-----------------------------------------------------------------------------
(* The server's check of an address is the one of the service.                *)
LEMMA InsideIsInside ==
    ASSUME NEW t \in Tables, NEW a \in Nat, NEW n \in Nat
    PROVE  Inside(t, a, n) <=> Service!Inside(t, a, n)
BY ConstantsAssumption DEF Inside, Service!Inside, MappingAddress

(* A write of the server is the effect of the call.                           *)
LEMMA StoreIsEffect ==
    ASSUME NEW c, c.op \in Service!Writes,
           NEW t \in Tables, t = Service!WriteTable(c.op),
           NEW a \in Nat, a = c.waddr, NEW n \in Nat, n = c.wnb, NEW v,
           \A k \in 0..(n - 1) :
               v[k] = Service!Written(c, k, mapping[t][MappingAddress(t, a) + k])
    PROVE  Store(t, a, n, v) = Service!Effect(c)
<1> DEFINE first == MappingAddress(t, a)
           old == mapping[t]
           stored == [i \in DOMAIN old |->
                         IF i \in first..(first + n - 1)
                         THEN v[i - first] ELSE old[i]]
           written == [i \in DOMAIN old |->
                          IF i \in first..(first + n - 1)
                          THEN Service!Written(c, i - first, old[i]) ELSE old[i]]
<1>1. first \in Int /\ first = c.waddr - Start[t]
  BY ConstantsAssumption DEF MappingAddress
<1>2. Store(t, a, n, v) = [mapping EXCEPT ![t] = stored]
  BY DEF Store
<1>3. Service!Effect(c) = [mapping EXCEPT ![t] = written]
  BY <1>1 DEF Service!Effect
<1>4. ASSUME NEW i \in first..(first + n - 1)
      PROVE  v[i - first] = Service!Written(c, i - first, old[i])
  <2>1. i - first \in 0..(n - 1) /\ first + (i - first) = i
    BY <1>1
  <2>2. v[i - first] = Service!Written(c, i - first, old[first + (i - first)])
    BY <2>1
  <2> QED
    BY <2>1, <2>2
<1>5. stored = written
  BY <1>4, Zenon
<1> HIDE DEF stored, written
<1> QED
  BY <1>2, <1>3, <1>5

-----------------------------------------------------------------------------
(* A reply carries the call out, or is an exception.                          *)

(* Whether a call fits depends on the call alone.                             *)
LEMMA SameCall ==
    ASSUME call' = call, backend' = backend
    PROVE  /\ Service!Fits(call)' <=> Service!Fits(call)
           /\ Service!Broadcast(call)' <=> Service!Broadcast(call)
BY DEF Service!Fits, Service!Reads, Service!Writes, Service!ReadLimit,
       Service!WriteLimit, Service!ReadTable, Service!WriteTable,
       Service!Inside, Service!Broadcast

(* The two ends of a step, when the reply is sent.                            *)
LEMMA AnswersThen ==
    ASSUME call' = call, req' = req, NEW m, rsp' = m, NEW tables,
           mapping' = tables
    PROVE  Answers(call, req, rsp, mapping)' <=> Answers(call, req, m, tables)
BY DEF Answers, MappingAddress, PutBits, PutWords, BytesOfBits,
       Service!ReadTable, Hi, Lo

(* The length the client expects depends on the request.                      *)
LEMMA LengthThen ==
    ASSUME backend' = backend, req' = req
    PROVE  ResponseLength(req)' = ResponseLength(req)
BY DEF ResponseLength, HeaderLength, ChecksumLength, BytesOfBits

(* modbus_reply carries a call out exactly when it fits.                      *)
LEMMA ReplyRefines ==
    ASSUME RInv, NEW fn, NEW legal, NEW inside, NEW m, NEW tables,
           Reply(fn, legal, inside, m, tables),
           ~(legal /\ inside) => ~Service!Fits(call),
           legal /\ inside =>
               /\ Service!Fits(call) /\ tables = Service!Effect(call)
               /\ Answers(call, req, WithChecksum(m), tables)
               /\ call.op # "report_slave_id" =>
                      WithChecksum(m).length = ResponseLength(req)
    PROVE  Asked' /\ Outcome' /\ ServiceStep
<1>1. phase = "indication" /\ Carries(call, req)
  BY DEF RInv, Asked, Reply, Indicated
<1>2. /\ UNCHANGED <<backend, call, req, result, dest>>
      /\ phase' = IF backend = "rtu" /\ req.slave = 0
                  THEN "silence" ELSE "confirmation"
  BY DEF Reply, Refuse, Answer, MODBUS_BROADCAST_ADDRESS
<1>3. req.fn \in 1..127 /\ req.slave = call.slave
  BY <1>1, CallOfCode DEF Carries
<1>4. Asked'
  BY <1>1, <1>2 DEF Asked, Carries
<1>5. /\ phase' \in {"confirmation", "silence"}
      /\ phase' = "silence" <=> Service!Broadcast(call)'
  BY <1>2, <1>3, SameCall DEF Service!Broadcast
<1>6. serviceState = "called"
  BY <1>1 DEF serviceState
<1>7. CASE legal /\ inside
  <2>1. rsp' = WithChecksum(m) /\ mapping' = tables
    BY <1>7 DEF Reply, Answer
  <2>2. Answers(call, req, WithChecksum(m), tables) /\ Service!Fits(call)
    BY <1>7
  <2>3. rsp'.fn = req.fn
    BY <2>1, <2>2 DEF Answers
  <2>4. rsp'.fn < 128 /\ ~(rsp'.fn >= 128)
    BY <1>3, <2>3
  <2>5. Answers(call, req, rsp, mapping)'
    BY <1>2, <2>1, <2>2, AnswersThen
  <2>6. (call.op # "report_slave_id" => rsp.length = ResponseLength(req))'
    BY <1>2, <1>7, <2>1, LengthThen
  <2>7. Service!Fits(call)'
    BY <1>2, <2>2, SameCall
  <2>8. Outcome'
    BY <1>5, <2>4, <2>5, <2>6, <2>7 DEF Outcome
  <2>9. serviceState' = "executed"
    BY <1>5, <2>4 DEF serviceState
  <2>10. Service!Execute
    BY <1>2, <1>6, <1>7, <2>1, <2>9 DEF Service!Execute
  <2> QED
    BY <1>4, <2>8, <2>10 DEF ServiceStep, Service!Next
<1>8. CASE ~(legal /\ inside)
  <2>1. PICK code : Refuse(code)
    BY <1>8 DEF Reply
  <2>2. mapping' = mapping /\ rsp' = WithChecksum(ExceptionResponse(code))
    BY <2>1 DEF Refuse, Answer
  <2>3. rsp'.fn = req.fn + 128
    BY <2>2 DEF WithChecksum, ExceptionResponse, ResponseBasis, RequestBasis
  <2>4. ~(rsp'.fn < 128)
    BY <1>3, <2>3
  <2>5. ~Service!Fits(call)'
    BY <1>2, <1>8, SameCall
  <2>6. Outcome'
    BY <1>5, <2>4, <2>5 DEF Outcome
  <2>7. serviceState' = "called"
    BY <1>5, <2>4 DEF serviceState
  <2>8. UNCHANGED Service!vars
    BY <1>2, <1>6, <2>2, <2>7 DEF Service!vars
  <2> QED
    BY <1>4, <2>6, <2>8 DEF ServiceStep
<1> QED
  BY <1>7, <1>8

(* What the server and the client know of the request on the line.            *)
LEMMA OnTheLine ==
    ASSUME RInv, phase # "idle"
    PROVE  /\ Carries(call, req) /\ call.op \in Operations
           /\ req.fn = FunctionOf(call.op) /\ req.slave = call.slave
           /\ mapping \in Mappings /\ backend \in {"tcp", "rtu"}
BY DEF RInv, IInv, TypeOK, Asked, Carries

(* A response with a byte count, and the length the client expects of it.     *)
CountedReply(count, data, more) ==
    [ResponseBasis(req.fn) EXCEPT
        !.count = count, !.data = data, !.length = @ + 1 + more]

(* The fields and the length of such a response.                              *)
LEMMA LengthOfRead ==
    ASSUME backend \in {"tcp", "rtu"}, NEW count, NEW data, NEW more \in Nat
    PROVE  LET m == WithChecksum(CountedReply(count, data, more))
           IN  /\ m.fn = req.fn /\ m.count = count /\ m.data = data
               /\ m.length = HeaderLength + ChecksumLength + 2 + more
<1>1. PresetRspLength = HeaderLength + 1 /\ ChecksumLength \in Nat
      /\ HeaderLength \in Nat
  BY DEF PresetRspLength, HeaderLength, ChecksumLength
<1> DEFINE m == WithChecksum(CountedReply(count, data, more))
<1>2. /\ m.fn = req.fn /\ m.count = count /\ m.data = data
      /\ m.length = PresetRspLength + 1 + more + ChecksumLength
  BY DEF WithChecksum, CountedReply, ResponseBasis, RequestBasis
<1> QED
  BY <1>1, <1>2

(* Bits are read out of the table of the call.                                *)
LEMMA ReplyReadBitsRefines ==
    ASSUME RInv, NEW fn, NEW t \in Tables, ReplyReadBits(fn, t),
           \/ fn = MODBUS_FC_READ_COILS /\ t = "bits"
           \/ fn = MODBUS_FC_READ_DISCRETE_INPUTS /\ t = "input_bits"
    PROVE  Asked' /\ Outcome' /\ ServiceStep
<1> DEFINE legal == req.nb \in 1..MODBUS_MAX_READ_BITS
           inside == Inside(t, req.addr, req.nb)
           m == BitsResponse(t)
<1>1. Reply(fn, legal, inside, m, mapping)
  BY DEF ReplyReadBits
<1>2. req.fn = fn /\ phase # "idle"
  BY <1>1 DEF Reply, Indicated
<1>3. /\ call.op \in BitReads /\ Service!ReadTable(call.op) = t
      /\ call.op \in {"read_bits", "read_input_bits"}
  BY <1>2, OnTheLine, CallOfCode, Codes DEF Service!ReadTable, BitReads
<1>4. /\ call.addr \in Nat /\ call.nb \in Nat
      /\ req.addr = call.addr /\ req.nb = call.nb
  BY <1>2, <1>3, OnTheLine DEF Carries
<1>5. /\ call.op \in Service!Reads /\ call.op \notin Service!Writes
      /\ call.op # "report_slave_id"
      /\ Service!ReadLimit(call.op) = MODBUS_MAX_READ_BITS
  BY <1>3 DEF Service!Reads, Service!Writes, Service!ReadLimit,
              MODBUS_MAX_READ_BITS
<1>6. inside <=> Service!Inside(t, call.addr, call.nb)
  BY <1>4, InsideIsInside
<1>7. Service!Fits(call) <=> legal /\ inside
  BY <1>3, <1>4, <1>5, <1>6 DEF Service!Fits
<1>8. mapping = Service!Effect(call)
  BY <1>5 DEF Service!Effect
<1>9. ASSUME legal
      PROVE  /\ Answers(call, req, WithChecksum(m), mapping)
             /\ WithChecksum(m).length = ResponseLength(req)
  <2> DEFINE n == BytesOfBits(call.nb)
             data == PutBits(mapping[t], MappingAddress(t, call.addr), call.nb)
  <2>0. call.nb <= MODBUS_MAX_READ_BITS
    BY <1>4, <1>9, Limits, WithinLimit
  <2>1. n \in Nat /\ n % 256 = n
    BY <1>4, <2>0, BytesOfBitsBound
  <2>2. m = CountedReply(n, data, n)
    BY <1>4, <2>1 DEF BitsResponse, CountedReply
  <2> HIDE DEF m, n, data
  <2>3. /\ WithChecksum(m).fn = req.fn /\ WithChecksum(m).count = n
        /\ WithChecksum(m).data = data
        /\ WithChecksum(m).length = HeaderLength + ChecksumLength + 2 + n
    <3>1. backend \in {"tcp", "rtu"}
      BY <1>2, OnTheLine
    <3> QED
      BY <2>1, <2>2, <3>1, LengthOfRead
  <2>4. Answers(call, req, WithChecksum(m), mapping)
    BY <1>3, <2>3
       DEF Answers, WordReads, Singles, Multiples, n, data
  <2>5. ResponseLength(req) = HeaderLength + ChecksumLength + 2 + n
    <3>1. /\ req.fn \in ReadBitsFns /\ req.fn \notin ReadRegistersFns
          /\ req.fn # MODBUS_FC_MASK_WRITE_REGISTER
      BY <1>2, Codes DEF ReadBitsFns, ReadRegistersFns
    <3>2. ResponseLength(req) = HeaderLength + ChecksumLength + (2 + n)
      BY <1>4, <3>1 DEF ResponseLength, n
    <3>3. HeaderLength \in Nat /\ ChecksumLength \in Nat
      BY DEF HeaderLength, ChecksumLength
    <3> QED
      BY <2>1, <3>2, <3>3
  <2> QED
    BY <2>3, <2>4, <2>5
<1> HIDE DEF legal, inside, m
<1> QED
  BY <1>1, <1>7, <1>8, <1>9, ReplyRefines

(* Registers are read out of the table of the call.                           *)
LEMMA ReplyReadRegistersRefines ==
    ASSUME RInv, NEW fn, NEW t \in Tables, ReplyReadRegisters(fn, t),
           \/ fn = MODBUS_FC_READ_HOLDING_REGISTERS /\ t = "registers"
           \/ fn = MODBUS_FC_READ_INPUT_REGISTERS /\ t = "input_registers"
    PROVE  Asked' /\ Outcome' /\ ServiceStep
<1> DEFINE legal == req.nb \in 1..MODBUS_MAX_READ_REGISTERS
           inside == Inside(t, req.addr, req.nb)
           m == RegistersResponse(t, mapping)
<1>1. Reply(fn, legal, inside, m, mapping)
  BY DEF ReplyReadRegisters
<1>2. req.fn = fn /\ phase # "idle"
  BY <1>1 DEF Reply, Indicated
<1>3. /\ Service!ReadTable(call.op) = t
      /\ call.op \in {"read_registers", "read_input_registers"}
  BY <1>2, OnTheLine, CallOfCode, Codes DEF Service!ReadTable
<1>4. /\ call.addr \in Nat /\ call.nb \in Nat
      /\ req.addr = call.addr /\ req.nb = call.nb
  BY <1>2, <1>3, OnTheLine DEF Carries, WordReads
<1>5. /\ call.op \in Service!Reads /\ call.op \notin Service!Writes
      /\ call.op # "report_slave_id"
      /\ Service!ReadLimit(call.op) = MODBUS_MAX_READ_REGISTERS
  BY <1>3 DEF Service!Reads, Service!Writes, Service!ReadLimit,
              MODBUS_MAX_READ_REGISTERS
<1>6. inside <=> Service!Inside(t, call.addr, call.nb)
  BY <1>4, InsideIsInside
<1>7. Service!Fits(call) <=> legal /\ inside
  BY <1>3, <1>4, <1>5, <1>6 DEF Service!Fits
<1>8. mapping = Service!Effect(call)
  BY <1>5 DEF Service!Effect
<1>9. ASSUME legal
      PROVE  /\ Answers(call, req, WithChecksum(m), mapping)
             /\ WithChecksum(m).length = ResponseLength(req)
  <2> DEFINE n == 2 * call.nb
             data == PutWords(mapping[t], MappingAddress(t, call.addr), call.nb)
  <2>1. n \in Nat /\ n % 256 = n
    BY <1>4, <1>9 DEF MODBUS_MAX_READ_REGISTERS
  <2>2. m = CountedReply(n, data, n)
    BY <1>4, <2>1 DEF RegistersResponse, CountedReply
  <2> HIDE DEF m, n, data
  <2>3. /\ WithChecksum(m).fn = req.fn /\ WithChecksum(m).count = n
        /\ WithChecksum(m).data = data
        /\ WithChecksum(m).length = HeaderLength + ChecksumLength + 2 + n
    <3>1. backend \in {"tcp", "rtu"}
      BY <1>2, OnTheLine
    <3> QED
      BY <2>1, <2>2, <3>1, LengthOfRead
  <2>4. Answers(call, req, WithChecksum(m), mapping)
    BY <1>3, <2>3
       DEF Answers, BitReads, Singles, Multiples, n, data
  <2>5. ResponseLength(req) = HeaderLength + ChecksumLength + 2 + n
    <3>1. /\ req.fn \notin ReadBitsFns /\ req.fn \in ReadRegistersFns
          /\ req.fn # MODBUS_FC_MASK_WRITE_REGISTER
      BY <1>2, Codes DEF ReadBitsFns, ReadRegistersFns
    <3>2. ResponseLength(req) = HeaderLength + ChecksumLength + (2 + n)
      BY <1>4, <3>1 DEF ResponseLength, n
    <3>3. HeaderLength \in Nat /\ ChecksumLength \in Nat
      BY DEF HeaderLength, ChecksumLength
    <3> QED
      BY <2>1, <3>2, <3>3
  <2> QED
    BY <2>3, <2>4, <2>5
<1> HIDE DEF legal, inside, m
<1> QED
  BY <1>1, <1>7, <1>8, <1>9, ReplyRefines

(* The copy of a request that answers it.                                     *)
LEMMA EchoAnswers ==
    ASSUME RInv, NEW fn, Indicated(fn),
           fn \in WriteSingleFns \cup {MODBUS_FC_MASK_WRITE_REGISTER}
    PROVE  LET m == WithChecksum(Echo)
           IN  /\ m.fn = req.fn /\ m.addr = req.addr /\ m.data = req.data
               /\ m.length = ResponseLength(req)
<1>1. /\ IsMessage(req) /\ req.fn = fn /\ IndicationLength(req) = req.length
  BY AtIndication DEF RInv
<1>2. PICK n : req \in Message(n)
  BY <1>1 DEF IsMessage
<1>3. HeaderLength \in Nat /\ ChecksumLength \in Nat
  BY DEF HeaderLength, ChecksumLength
<1>4. fn \in {5, 6, 22} /\ (fn \in {5, 6} <=> fn # MODBUS_FC_MASK_WRITE_REGISTER)
  BY Codes DEF WriteSingleFns
<1>5. /\ fn \notin ReadBitsFns /\ fn \notin ReadRegistersFns
      /\ DataLengthOfIndication(req) = 0
  BY <1>1, <1>4, Codes, Datas DEF ReadBitsFns, ReadRegistersFns
<1>6. MetaLengthOfIndication(fn) = IF fn = MODBUS_FC_MASK_WRITE_REGISTER
                                   THEN 6 ELSE 4
  BY <1>4, Codes, Metas
<1>7. req.length = HeaderLength + ChecksumLength +
                     IF fn = MODBUS_FC_MASK_WRITE_REGISTER THEN 7 ELSE 5
  BY <1>1, <1>3, <1>5, <1>6 DEF IndicationLength
<1>8. req.length = ResponseLength(req)
  BY <1>1, <1>5, <1>7 DEF ResponseLength
<1> DEFINE m == WithChecksum(Echo)
<1>9. m.fn = req.fn /\ m.addr = req.addr /\ m.data = req.data
      /\ m.length = req.length - ChecksumLength + ChecksumLength
  BY <1>2 DEF WithChecksum, Echo, Message
<1>10. m.length = req.length
  BY <1>2, <1>3, <1>9 DEF Message
<1> QED
  BY <1>8, <1>9, <1>10

(* The address and the number of values that answer a write of many.          *)
LEMMA WrittenAnswers ==
    ASSUME RInv, req.fn \in WriteMultipleFns
    PROVE  LET m == WithChecksum(Written)
           IN  /\ m.fn = req.fn /\ m.addr = req.addr /\ m.nb = req.nb
               /\ m.length = ResponseLength(req)
<1>1. HeaderLength \in Nat /\ ChecksumLength \in Nat
      /\ PresetRspLength = HeaderLength + 1
  BY DEF RInv, IInv, TypeOK, HeaderLength, ChecksumLength, PresetRspLength
<1>2. /\ req.fn \notin ReadBitsFns /\ req.fn \notin ReadRegistersFns
      /\ req.fn # MODBUS_FC_MASK_WRITE_REGISTER
  BY Codes DEF ReadBitsFns, ReadRegistersFns, WriteMultipleFns
<1>3. ResponseLength(req) = HeaderLength + ChecksumLength + 5
  BY <1>2 DEF ResponseLength
<1> DEFINE m == WithChecksum(Written)
<1>4. m.fn = req.fn /\ m.addr = req.addr /\ m.nb = req.nb
      /\ m.length = PresetRspLength + 4 + ChecksumLength
  BY DEF WithChecksum, Written, ResponseBasis, RequestBasis
<1> QED
  BY <1>1, <1>3, <1>4

(* A bit is written.                                                          *)
LEMMA ReplyWriteBitRefines ==
    ASSUME RInv, ReplyWriteBit PROVE Asked' /\ Outcome' /\ ServiceStep
<1> DEFINE fn == MODBUS_FC_WRITE_SINGLE_COIL
           inside == Inside("bits", req.addr, 1)
           v == [i \in {0} |-> req.data[0] # {}]
           tables == Store("bits", req.addr, 1, v)
<1>1. Reply(fn, TRUE, inside, Echo, tables)
  BY DEF ReplyWriteBit
<1>2. req.fn = fn /\ phase # "idle" /\ Indicated(fn)
  BY <1>1 DEF Reply, Indicated
<1>3. call.op = "write_bit"
  BY <1>2, OnTheLine, CallOfCode, Codes
<1>4. /\ call.waddr \in Nat /\ call.wnb = 1 /\ req.addr = call.waddr
      /\ call.src[0] = (req.data[0] # {})
  BY <1>2, <1>3, OnTheLine DEF Carries, Singles, Service!Writes
<1>5. /\ call.op \notin Service!Reads /\ call.op \in Service!Writes
      /\ Service!WriteLimit(call.op) = 1
      /\ Service!WriteTable(call.op) = "bits" /\ "bits" \in Tables
  BY <1>3 DEF Service!Reads, Service!Writes, Service!WriteLimit,
              Service!WriteTable, Tables
<1>6. inside <=> Service!Inside("bits", call.waddr, call.wnb)
  BY <1>4, <1>5, InsideIsInside
<1>7. Service!Fits(call) <=> inside
  BY <1>3, <1>4, <1>5, <1>6 DEF Service!Fits
<1>8. tables = Service!Effect(call)
  <2>1. ASSUME NEW k \in 0..(1 - 1), NEW old
        PROVE  v[k] = Service!Written(call, k, old)
    <3>1. k = 0
      OBVIOUS
    <3> QED
      BY <1>3, <1>4, <3>1 DEF Service!Written
  <2> HIDE DEF v
  <2> QED
    BY <1>4, <1>5, <2>1, StoreIsEffect
<1>9. /\ Answers(call, req, WithChecksum(Echo), tables)
      /\ WithChecksum(Echo).length = ResponseLength(req)
  <2>1. fn \in WriteSingleFns \cup {MODBUS_FC_MASK_WRITE_REGISTER}
    BY DEF WriteSingleFns
  <2> HIDE DEF tables, fn
  <2> QED
    BY <1>2, <1>3, <2>1, EchoAnswers
       DEF Answers, BitReads, WordReads, Multiples
<1> HIDE DEF fn, inside, tables
<1> QED
  BY <1>1, <1>7, <1>8, <1>9, ReplyRefines

(* A register is written.                                                     *)
LEMMA ReplyWriteRegisterRefines ==
    ASSUME RInv, ReplyWriteRegister PROVE Asked' /\ Outcome' /\ ServiceStep
<1> DEFINE fn == MODBUS_FC_WRITE_SINGLE_REGISTER
           inside == Inside("registers", req.addr, 1)
           v == GetWords(req.data, 1)
           tables == Store("registers", req.addr, 1, v)
<1>1. Reply(fn, TRUE, inside, Echo, tables)
  BY DEF ReplyWriteRegister
<1>2. req.fn = fn /\ phase # "idle" /\ Indicated(fn)
  BY <1>1 DEF Reply, Indicated
<1>3. call.op = "write_register"
  BY <1>2, OnTheLine, CallOfCode, Codes
<1>4. /\ call.waddr \in Nat /\ call.wnb = 1 /\ req.addr = call.waddr
      /\ call.src[0] \in Word /\ req.data = PutWords(call.src, 0, 1)
  BY <1>2, <1>3, OnTheLine DEF Carries, Singles, Service!Writes
<1>5. /\ call.op \notin Service!Reads /\ call.op \in Service!Writes
      /\ Service!WriteLimit(call.op) = 1
      /\ Service!WriteTable(call.op) = "registers" /\ "registers" \in Tables
  BY <1>3 DEF Service!Reads, Service!Writes, Service!WriteLimit,
              Service!WriteTable, Tables
<1>6. inside <=> Service!Inside("registers", call.waddr, call.wnb)
  BY <1>4, <1>5, InsideIsInside
<1>7. Service!Fits(call) <=> inside
  BY <1>3, <1>4, <1>5, <1>6 DEF Service!Fits
<1>8. tables = Service!Effect(call)
  <2>1. v = [k \in 0..(1 - 1) |-> call.src[0 + k]]
    <3>1. \A k \in 0..(1 - 1) : call.src[0 + k] \in Word
      BY <1>4
    <3>2. 0 \in Int /\ 1 \in Nat
      OBVIOUS
    <3>3. GetWords(PutWords(call.src, 0, 1), 1)
            = [k \in 0..(1 - 1) |-> call.src[0 + k]]
      BY <3>1, <3>2, WordsThrough, Zenon
    <3> QED
      BY <1>4, <3>3, Zenon
  <2>2. ASSUME NEW k \in 0..(1 - 1), NEW old
        PROVE  v[k] = Service!Written(call, k, old)
    BY <1>3, <2>1 DEF Service!Written
  <2> HIDE DEF v
  <2> QED
    BY <1>4, <1>5, <2>2, StoreIsEffect
<1>9. /\ Answers(call, req, WithChecksum(Echo), tables)
      /\ WithChecksum(Echo).length = ResponseLength(req)
  <2>1. fn \in WriteSingleFns \cup {MODBUS_FC_MASK_WRITE_REGISTER}
    BY DEF WriteSingleFns
  <2> HIDE DEF tables, fn
  <2> QED
    BY <1>2, <1>3, <2>1, EchoAnswers
       DEF Answers, BitReads, WordReads, Multiples
<1> HIDE DEF fn, inside, tables
<1> QED
  BY <1>1, <1>7, <1>8, <1>9, ReplyRefines

(* A register is written through two masks.                                   *)
LEMMA ReplyMaskWriteRefines ==
    ASSUME RInv, ReplyMaskWriteRegister PROVE Asked' /\ Outcome' /\ ServiceStep
<1> DEFINE fn == MODBUS_FC_MASK_WRITE_REGISTER
           inside == Inside("registers", req.addr, 1)
           place == MappingAddress("registers", req.addr)
           masks == GetWords(req.data, 2)
           v == [i \in {0} |-> Masked(mapping["registers"][place],
                                      masks[0], masks[1])]
           tables == Store("registers", req.addr, 1, v)
<1>1. Reply(fn, TRUE, inside, Echo, tables)
  BY DEF ReplyMaskWriteRegister
<1>2. req.fn = fn /\ phase # "idle" /\ Indicated(fn)
  BY <1>1 DEF Reply, Indicated
<1>3. call.op = "mask_write_register"
  BY <1>2, OnTheLine, CallOfCode, Codes
<1>4. /\ call.waddr \in Nat /\ call.wnb = 1 /\ req.addr = call.waddr
      /\ call.src[0] \in Word /\ call.src[1] \in Word
      /\ req.data = PutWords(call.src, 0, 2)
  BY <1>2, <1>3, OnTheLine DEF Carries, Singles, Service!Writes
<1>5. /\ call.op \notin Service!Reads /\ call.op \in Service!Writes
      /\ Service!WriteLimit(call.op) = 1
      /\ Service!WriteTable(call.op) = "registers" /\ "registers" \in Tables
  BY <1>3 DEF Service!Reads, Service!Writes, Service!WriteLimit,
              Service!WriteTable, Tables
<1>6. inside <=> Service!Inside("registers", call.waddr, call.wnb)
  BY <1>4, <1>5, InsideIsInside
<1>7. Service!Fits(call) <=> inside
  BY <1>3, <1>4, <1>5, <1>6 DEF Service!Fits
<1>8. tables = Service!Effect(call)
  <2>1. masks[0] = call.src[0] /\ masks[1] = call.src[1]
    <3>1. \A k \in 0..(2 - 1) : call.src[0 + k] \in Word
      BY <1>4
    <3>2. masks = [k \in 0..(2 - 1) |-> call.src[0 + k]]
      BY <1>4, <3>1, WordsThrough
    <3> QED
      BY <3>2
  <2>2. ASSUME NEW k \in 0..(1 - 1)
        PROVE  v[k] = Service!Written(call, k, mapping["registers"][place + k])
    <3>1. k = 0 /\ place + k = place
      BY <1>4, <1>5, ConstantsAssumption DEF MappingAddress
    <3> HIDE DEF masks, place
    <3> QED
      BY <1>3, <2>1, <3>1 DEF Service!Written, Masked
  <2> HIDE DEF v
  <2> QED
    BY <1>4, <1>5, <2>2, StoreIsEffect
<1>9. /\ Answers(call, req, WithChecksum(Echo), tables)
      /\ WithChecksum(Echo).length = ResponseLength(req)
  <2>1. fn \in WriteSingleFns \cup {MODBUS_FC_MASK_WRITE_REGISTER}
    OBVIOUS
  <2> HIDE DEF tables, fn
  <2> QED
    BY <1>2, <1>3, <2>1, EchoAnswers
       DEF Answers, BitReads, WordReads, Multiples, Singles
<1> HIDE DEF fn, inside, tables
<1> QED
  BY <1>1, <1>7, <1>8, <1>9, ReplyRefines

(* Values inside a table are no more than it has.                             *)
LEMMA InsideIsShort ==
    ASSUME NEW t \in Tables, NEW a \in Nat, NEW n \in Nat, Service!Inside(t, a, n)
    PROVE  n <= Size[t]
BY ConstantsAssumption DEF Service!Inside

(* Many bits are written.                                                     *)
LEMMA ReplyWriteBitsRefines ==
    ASSUME RInv, ReplyWriteBits PROVE Asked' /\ Outcome' /\ ServiceStep
<1> DEFINE fn == MODBUS_FC_WRITE_MULTIPLE_COILS
           legal == req.nb \in 1..MODBUS_MAX_WRITE_BITS /\ req.nb <= 8 * req.count
           inside == Inside("bits", req.addr, req.nb)
           v == GetBits(req.data, req.nb)
           tables == Store("bits", req.addr, req.nb, v)
<1>1. Reply(fn, legal, inside, Written, tables)
  BY DEF ReplyWriteBits
<1>2. req.fn = fn /\ phase # "idle"
  BY <1>1 DEF Reply, Indicated
<1>3. call.op = "write_bits"
  BY <1>2, OnTheLine, CallOfCode, Codes
<1>4. /\ call.waddr \in Nat /\ call.wnb \in Nat
      /\ req.addr = call.waddr /\ req.nb = call.wnb
      /\ call.src \in [0..(Size["bits"] - 1) -> BOOLEAN]
      /\ req.data = PutBits(call.src, 0, call.wnb)
      /\ req.count = BytesOfBits(call.wnb)
  BY <1>2, <1>3, OnTheLine DEF Carries, Multiples, Service!Writes
<1>5. /\ call.op \notin Service!Reads /\ call.op \in Service!Writes
      /\ Service!WriteLimit(call.op) = MODBUS_MAX_WRITE_BITS
      /\ Service!WriteTable(call.op) = "bits" /\ "bits" \in Tables
  BY <1>3 DEF Service!Reads, Service!Writes, Service!WriteLimit,
              Service!WriteTable, Tables, MODBUS_MAX_WRITE_BITS
<1>6. inside <=> Service!Inside("bits", call.waddr, call.wnb)
  BY <1>4, <1>5, InsideIsInside
<1>7. Service!Fits(call) <=> legal /\ inside
  <2>1. req.nb <= 8 * req.count
    BY <1>4 DEF BytesOfBits
  <2> QED
    BY <1>3, <1>4, <1>5, <1>6, <2>1 DEF Service!Fits
<1>8. ASSUME legal /\ inside PROVE tables = Service!Effect(call)
  <2>1. call.wnb <= Size["bits"]
    BY <1>4, <1>5, <1>6, <1>8, InsideIsShort
  <2>2. \A k \in 0..(call.wnb - 1) : call.src[0 + k] \in BOOLEAN
    <3>1. Size["bits"] \in Nat
      BY ConstantsAssumption, <1>5
    <3>2. \A k \in 0..(call.wnb - 1) : 0 + k \in 0..(Size["bits"] - 1)
      BY <1>4, <2>1, <3>1
    <3> QED
      BY <1>4, <3>2
  <2>3. GetBits(PutBits(call.src, 0, call.wnb), call.wnb)
          = [k \in 0..(call.wnb - 1) |-> call.src[0 + k]]
    <3>1. 0 \in Int
      OBVIOUS
    <3> QED
      BY <1>4, <2>2, <3>1, BitsThrough, Zenon
  <2>4. ASSUME NEW k \in 0..(call.wnb - 1), NEW old
        PROVE  v[k] = Service!Written(call, k, old)
    <3>1. 0 + k = k /\ v[k] = call.src[0 + k]
      BY <1>4, <2>3
    <3> QED
      BY <1>3, <3>1 DEF Service!Written
  <2> HIDE DEF v
  <2>5. Store("bits", call.waddr, call.wnb, v) = Service!Effect(call)
    <3>1. \A k \in 0..(call.wnb - 1) :
            v[k] = Service!Written(call, k,
                       mapping["bits"][MappingAddress("bits", call.waddr) + k])
      BY <2>4, Zenon
    <3>2. "bits" = Service!WriteTable(call.op)
      BY <1>5
    <3> QED
      BY <1>4, <1>5, <3>1, <3>2, StoreIsEffect, Zenon
  <2> QED
    BY <1>4, <2>5
<1>9. /\ Answers(call, req, WithChecksum(Written), tables)
      /\ WithChecksum(Written).length = ResponseLength(req)
  <2>1. req.fn \in WriteMultipleFns
    BY <1>2 DEF WriteMultipleFns
  <2> HIDE DEF tables, fn
  <2> QED
    BY <1>3, <2>1, WrittenAnswers
       DEF Answers, BitReads, WordReads, Singles
<1> HIDE DEF fn, legal, inside, tables
<1> QED
  BY <1>1, <1>7, <1>8, <1>9, ReplyRefines

(* Registers that are sent from the first one on.                             *)
LEMMA WordsFromStart ==
    ASSUME NEW src, NEW n \in Nat, \A k \in 0..(n - 1) : src[k] \in Word
    PROVE  \A k \in 0..(n - 1) : GetWords(PutWords(src, 0, n), n)[k] = src[k]
<1>1. PICK first \in Int : first = 0
  OBVIOUS
<1>2. \A k \in 0..(n - 1) : first + k = k
  BY <1>1
<1>3. \A k \in 0..(n - 1) : src[first + k] \in Word
  BY <1>2
<1>4. GetWords(PutWords(src, first, n), n) = [k \in 0..(n - 1) |-> src[first + k]]
  BY <1>3, WordsThrough, Zenon
<1>5. \A k \in 0..(n - 1) : GetWords(PutWords(src, first, n), n)[k] = src[k]
  BY <1>2, <1>4
<1> QED
  BY <1>1, <1>5

(* Registers that a request carries are read as the caller wrote them.        *)
LEMMA WordsOfCall ==
    ASSUME NEW n \in Nat, n <= Size["registers"],
           NEW src \in [0..(Size["registers"] - 1) -> Word]
    PROVE  \A k \in 0..(n - 1) : GetWords(PutWords(src, 0, n), n)[k] = src[k]
<1>1. Size["registers"] \in Nat
  BY ConstantsAssumption DEF Tables
<1>2. \A k \in 0..(n - 1) : src[k] \in Word
  BY <1>1
<1> QED
  BY <1>2, WordsFromStart

(* Many registers are written.                                                *)
LEMMA ReplyWriteRegistersRefines ==
    ASSUME RInv, ReplyWriteRegisters PROVE Asked' /\ Outcome' /\ ServiceStep
<1> DEFINE fn == MODBUS_FC_WRITE_MULTIPLE_REGISTERS
           legal == req.nb \in 1..MODBUS_MAX_WRITE_REGISTERS
                    /\ req.count = 2 * req.nb
           inside == Inside("registers", req.addr, req.nb)
           v == GetWords(req.data, req.nb)
           tables == Store("registers", req.addr, req.nb, v)
<1>1. Reply(fn, legal, inside, Written, tables)
  BY DEF ReplyWriteRegisters
<1>2. req.fn = fn /\ phase # "idle"
  BY <1>1 DEF Reply, Indicated
<1>3. call.op = "write_registers"
  BY <1>2, OnTheLine, CallOfCode, Codes
<1>4. /\ call.waddr \in Nat /\ call.wnb \in Nat
      /\ req.addr = call.waddr /\ req.nb = call.wnb
      /\ call.src \in [0..(Size["registers"] - 1) -> Word]
      /\ req.data = PutWords(call.src, 0, call.wnb)
      /\ req.count = 2 * call.wnb
  BY <1>2, <1>3, OnTheLine DEF Carries, Multiples, Service!Writes
<1>5. /\ call.op \notin Service!Reads /\ call.op \in Service!Writes
      /\ Service!WriteLimit(call.op) = MODBUS_MAX_WRITE_REGISTERS
      /\ Service!WriteTable(call.op) = "registers" /\ "registers" \in Tables
  BY <1>3 DEF Service!Reads, Service!Writes, Service!WriteLimit,
              Service!WriteTable, Tables, MODBUS_MAX_WRITE_REGISTERS
<1>6. inside <=> Service!Inside("registers", call.waddr, call.wnb)
  BY <1>4, <1>5, InsideIsInside
<1>7. Service!Fits(call) <=> legal /\ inside
  BY <1>3, <1>4, <1>5, <1>6 DEF Service!Fits
<1>8. ASSUME legal /\ inside PROVE tables = Service!Effect(call)
  <2>1. call.wnb <= Size["registers"]
    BY <1>4, <1>5, <1>6, <1>8, InsideIsShort
  <2>2. \A k \in 0..(call.wnb - 1) : v[k] = call.src[k]
    BY <1>4, <2>1, WordsOfCall
  <2>3. ASSUME NEW k \in 0..(call.wnb - 1), NEW old
        PROVE  v[k] = Service!Written(call, k, old)
    BY <1>3, <2>2 DEF Service!Written
  <2> HIDE DEF v
  <2>4. Store("registers", call.waddr, call.wnb, v) = Service!Effect(call)
    <3>1. \A k \in 0..(call.wnb - 1) :
            v[k] = Service!Written(call, k,
                       mapping["registers"][MappingAddress("registers", call.waddr) + k])
      BY <2>3, Zenon
    <3>2. "registers" = Service!WriteTable(call.op)
      BY <1>5
    <3> QED
      BY <1>4, <1>5, <3>1, <3>2, StoreIsEffect, Zenon
  <2> QED
    BY <1>4, <2>4
<1>9. /\ Answers(call, req, WithChecksum(Written), tables)
      /\ WithChecksum(Written).length = ResponseLength(req)
  <2>1. req.fn \in WriteMultipleFns
    BY <1>2 DEF WriteMultipleFns
  <2> HIDE DEF tables, fn
  <2> QED
    BY <1>3, <2>1, WrittenAnswers
       DEF Answers, BitReads, WordReads, Singles
<1> HIDE DEF fn, legal, inside, tables
<1> QED
  BY <1>1, <1>7, <1>8, <1>9, ReplyRefines

(* Registers are written, then read back.                                     *)
LEMMA ReplyWriteAndReadRefines ==
    ASSUME RInv, ReplyWriteAndReadRegisters
    PROVE  Asked' /\ Outcome' /\ ServiceStep
<1> DEFINE fn == MODBUS_FC_WRITE_AND_READ_REGISTERS
           legal == /\ req.wnb \in 1..MODBUS_MAX_WR_WRITE_REGISTERS
                    /\ req.nb \in 1..MODBUS_MAX_WR_READ_REGISTERS
                    /\ req.count = 2 * req.wnb
           inside == /\ Inside("registers", req.addr, req.nb)
                     /\ Inside("registers", req.waddr, req.wnb)
           v == GetWords(req.data, req.wnb)
           m == RegistersResponse("registers", WriteFirst)
<1>1. Reply(fn, legal, inside, m, WriteFirst)
  BY DEF ReplyWriteAndReadRegisters, ReplyWriteAndRead
<1>2. req.fn = fn /\ phase # "idle"
  BY <1>1 DEF Reply, Indicated
<1>3. call.op = "write_and_read_registers"
  BY <1>2, OnTheLine, CallOfCode, Codes
<1>4. /\ call.waddr \in Nat /\ call.wnb \in Nat
      /\ call.addr \in Nat /\ call.nb \in Nat
      /\ req.addr = call.addr /\ req.nb = call.nb
      /\ req.waddr = call.waddr /\ req.wnb = call.wnb
      /\ call.src \in [0..(Size["registers"] - 1) -> Word]
      /\ req.data = PutWords(call.src, 0, call.wnb)
      /\ req.count = 2 * call.wnb
  BY <1>2, <1>3, OnTheLine DEF Carries, WordReads, Service!Writes
<1>5. /\ call.op \in Service!Reads /\ call.op \in Service!Writes
      /\ Service!WriteLimit(call.op) = MODBUS_MAX_WR_WRITE_REGISTERS
      /\ Service!ReadLimit(call.op) = MODBUS_MAX_WR_READ_REGISTERS
      /\ Service!WriteTable(call.op) = "registers" /\ "registers" \in Tables
      /\ Service!ReadTable(call.op) = "registers"
  BY <1>3 DEF Service!Reads, Service!Writes, Service!WriteLimit,
              Service!ReadLimit, Service!WriteTable, Service!ReadTable, Tables,
              MODBUS_MAX_WR_WRITE_REGISTERS, MODBUS_MAX_WR_READ_REGISTERS
<1>6. inside <=> /\ Service!Inside("registers", call.addr, call.nb)
                 /\ Service!Inside("registers", call.waddr, call.wnb)
  BY <1>4, <1>5, InsideIsInside
<1>7. Service!Fits(call) <=> legal /\ inside
  BY <1>3, <1>4, <1>5, <1>6 DEF Service!Fits
<1>8. ASSUME legal /\ inside PROVE WriteFirst = Service!Effect(call)
  <2>1. call.wnb <= Size["registers"]
    BY <1>4, <1>5, <1>6, <1>8, InsideIsShort
  <2>2. \A k \in 0..(call.wnb - 1) : v[k] = call.src[k]
    BY <1>4, <2>1, WordsOfCall
  <2>3. ASSUME NEW k \in 0..(call.wnb - 1), NEW old
        PROVE  v[k] = Service!Written(call, k, old)
    BY <1>3, <2>2 DEF Service!Written
  <2>4. WriteFirst = Store("registers", call.waddr, call.wnb, v)
    BY <1>4 DEF WriteFirst
  <2> HIDE DEF v
  <2> QED
    BY <1>4, <1>5, <2>3, <2>4, StoreIsEffect
<1>9. ASSUME legal
      PROVE  /\ Answers(call, req, WithChecksum(m), WriteFirst)
             /\ WithChecksum(m).length = ResponseLength(req)
  <2> DEFINE n == 2 * call.nb
             data == PutWords(WriteFirst["registers"],
                              MappingAddress("registers", call.addr), call.nb)
  <2>1. n \in Nat /\ n % 256 = n
    <3>1. call.nb \in Nat /\ call.nb <= 125
      <4>1. req.nb \in 1..125
        BY <1>9 DEF MODBUS_MAX_WR_READ_REGISTERS
      <4>2. req.nb = call.nb
        BY <1>4
      <4> QED
        BY <4>1, <4>2
    <3> QED
      BY <3>1
  <2>2. m = CountedReply(n, data, n)
    BY <1>4, <2>1 DEF RegistersResponse, CountedReply
  <2> HIDE DEF m, n, data
  <2>3. /\ WithChecksum(m).fn = req.fn /\ WithChecksum(m).count = n
        /\ WithChecksum(m).data = data
        /\ WithChecksum(m).length = HeaderLength + ChecksumLength + 2 + n
    <3>1. backend \in {"tcp", "rtu"}
      BY <1>2, OnTheLine
    <3> QED
      BY <2>1, <2>2, <3>1, LengthOfRead
  <2>4. Answers(call, req, WithChecksum(m), WriteFirst)
    BY <1>3, <1>5, <2>3
       DEF Answers, BitReads, Singles, Multiples, n, data
  <2>5. ResponseLength(req) = HeaderLength + ChecksumLength + 2 + n
    <3>1. /\ req.fn \notin ReadBitsFns /\ req.fn \in ReadRegistersFns
          /\ req.fn # MODBUS_FC_MASK_WRITE_REGISTER
      BY <1>2, Codes DEF ReadBitsFns, ReadRegistersFns
    <3>2. ResponseLength(req) = HeaderLength + ChecksumLength + (2 + n)
      BY <1>4, <3>1 DEF ResponseLength, n
    <3>3. HeaderLength \in Nat /\ ChecksumLength \in Nat
      BY DEF HeaderLength, ChecksumLength
    <3> QED
      BY <2>1, <3>2, <3>3
  <2> QED
    BY <2>3, <2>4, <2>5
<1> HIDE DEF fn, legal, inside, m
<1> QED
  BY <1>1, <1>7, <1>8, <1>9, ReplyRefines

(* The server describes itself.                                               *)
LEMMA ReplyReportRefines ==
    ASSUME RInv, ReplyReportSlaveId PROVE Asked' /\ Outcome' /\ ServiceStep
<1> DEFINE fn == MODBUS_FC_REPORT_SLAVE_ID
           n == Len(Identity)
           data == [k \in 0..(n - 1) |-> Identity[k + 1]]
           m == [ResponseBasis(req.fn) EXCEPT
                   !.count = n % 256, !.data = data, !.length = @ + 1 + n]
<1>1. Reply(fn, TRUE, TRUE, m, mapping)
  BY DEF ReplyReportSlaveId
<1>2. req.fn = fn /\ phase # "idle"
  BY <1>1 DEF Reply, Indicated
<1>3. call.op = "report_slave_id"
  BY <1>2, OnTheLine, CallOfCode, Codes
<1>4. Service!Fits(call)
  <2>1. call.nb \in Nat \ {0}
    BY <1>2, <1>3, OnTheLine DEF Carries
  <2> QED
    BY <1>3, <2>1 DEF Service!Fits, Service!Reads, Service!Writes
<1>5. mapping = Service!Effect(call)
  BY <1>3 DEF Service!Effect, Service!Writes
<1>6. Answers(call, req, WithChecksum(m), mapping)
  <2>1. n \in Nat /\ n % 256 = n
    <3>1. n \in Nat /\ n <= 251
      BY ConstantsAssumption
    <3>2. \A i \in Nat : i <= 251 => i % 256 = i
      OBVIOUS
    <3> QED
      BY <3>1, <3>2
  <2>2. m = CountedReply(n, data, n)
    BY <2>1 DEF CountedReply
  <2> HIDE DEF m, n, data
  <2>3. /\ WithChecksum(m).fn = req.fn /\ WithChecksum(m).count = n
        /\ WithChecksum(m).data = data
    <3>1. backend \in {"tcp", "rtu"}
      BY <1>2, OnTheLine
    <3> QED
      BY <2>1, <2>2, <3>1, LengthOfRead
  <2> QED
    BY <1>3, <2>3
       DEF Answers, BitReads, WordReads, Singles, Multiples, n, data
<1> HIDE DEF fn, m
<1> QED
  BY <1>1, <1>3, <1>4, <1>5, <1>6, ReplyRefines

-----------------------------------------------------------------------------
(* The confirmation gives the caller what the service promises.               *)

(* The groups of function codes are the groups of calls.                      *)
LEMMA Groups ==
    ASSUME NEW op \in Operations
    PROVE  /\ FunctionOf(op) \in ReadBitsFns <=> op \in BitReads
           /\ FunctionOf(op) \in ReadRegistersFns <=> op \in WordReads
           /\ FunctionOf(op) \in WriteSingleFns <=> op \in Singles
           /\ FunctionOf(op) \in WriteMultipleFns <=> op \in Multiples
           /\ FunctionOf(op) = MODBUS_FC_REPORT_SLAVE_ID <=> op = "report_slave_id"
<1>1. /\ ReadBitsFns = {1, 2} /\ ReadRegistersFns = {3, 4, 23}
      /\ WriteSingleFns = {5, 6} /\ WriteMultipleFns = {15, 16}
  BY Codes DEF ReadBitsFns, ReadRegistersFns, WriteSingleFns, WriteMultipleFns
<1> QED
  BY <1>1, Codes, CallOfCode

(* What the caller is given of the tables has the width of the table.         *)
LEMMA ValuesType ==
    ASSUME mapping \in Mappings, NEW t \in Tables, NEW a \in Nat, NEW n \in Nat,
           Service!Inside(t, a, n), NEW k \in 0..(n - 1)
    PROVE  /\ MappingAddress(t, a) \in Int
           /\ t \in {"bits", "input_bits"} =>
                  mapping[t][MappingAddress(t, a) + k] \in BOOLEAN
           /\ t \in {"registers", "input_registers"} =>
                  mapping[t][MappingAddress(t, a) + k] \in Word
<1>1. MappingAddress(t, a) \in Int
  BY ConstantsAssumption DEF MappingAddress
<1>2. MappingAddress(t, a) + k \in 0..(Size[t] - 1)
  BY ConstantsAssumption DEF MappingAddress, Service!Inside
<1>3. t \in {"bits", "input_bits"} => mapping[t] \in [0..(Size[t] - 1) -> BOOLEAN]
  BY DEF Mappings
<1>4. t \in {"registers", "input_registers"} =>
          mapping[t] \in [0..(Size[t] - 1) -> Word]
  BY DEF Mappings
<1> QED
  BY <1>1, <1>2, <1>3, <1>4

(* The values of a call that reads.                                           *)
LEMMA ReadsGiven ==
    ASSUME NEW c, c.op \in Service!Reads, NEW t, t = Service!ReadTable(c.op)
    PROVE  Service!Values(c)
             = [i \in 0..(c.nb - 1) |-> mapping[t][MappingAddress(t, c.addr) + i]]
<1>1. c.op # "report_slave_id"
  BY DEF Service!Reads
<1>2. Service!Values(c)
        = [i \in 0..(c.nb - 1) |->
              mapping[Service!ReadTable(c.op)]
                  [c.addr - Start[Service!ReadTable(c.op)] + i]]
  BY <1>1 DEF Service!Values
<1> QED
  BY <1>2 DEF MappingAddress

(* The bits a call reads.                                                     *)
LEMMA BitsDelivered ==
    ASSUME mapping \in Mappings, NEW c, c.op \in BitReads, c.addr \in Nat,
           c.nb \in Nat, Service!Fits(c), NEW data, NEW t,
           t = Service!ReadTable(c.op),
           data = PutBits(mapping[t], MappingAddress(t, c.addr), c.nb)
    PROVE  GetBits(data, c.nb) = Service!Values(c)
<1>1. t \in Tables /\ t \in {"bits", "input_bits"} /\ c.op \in Service!Reads
  BY DEF BitReads, Service!ReadTable, Tables, Service!Reads
<1>2. Service!Inside(t, c.addr, c.nb)
  BY <1>1 DEF Service!Fits
<1>3. MappingAddress(t, c.addr) \in Int
  BY <1>1, ConstantsAssumption DEF MappingAddress
<1>4. \A k \in 0..(c.nb - 1) : mapping[t][MappingAddress(t, c.addr) + k] \in BOOLEAN
  BY <1>1, <1>2, ValuesType
<1>5. GetBits(data, c.nb)
        = [k \in 0..(c.nb - 1) |-> mapping[t][MappingAddress(t, c.addr) + k]]
  BY <1>3, <1>4, BitsThrough
<1>6. Service!Values(c)
        = [k \in 0..(c.nb - 1) |-> mapping[t][MappingAddress(t, c.addr) + k]]
  BY <1>1, ReadsGiven
<1> QED
  BY <1>5, <1>6

(* The registers a call reads.                                                *)
LEMMA WordsDelivered ==
    ASSUME mapping \in Mappings, NEW c, c.op \in WordReads, c.addr \in Nat,
           c.nb \in Nat, Service!Fits(c), NEW data, NEW t,
           t = Service!ReadTable(c.op),
           data = PutWords(mapping[t], MappingAddress(t, c.addr), c.nb)
    PROVE  GetWords(data, c.nb) = Service!Values(c)
<1>1. t \in Tables /\ t \in {"registers", "input_registers"}
      /\ c.op \in Service!Reads
  BY DEF WordReads, Service!ReadTable, Tables, Service!Reads
<1>2. Service!Inside(t, c.addr, c.nb)
  BY <1>1 DEF Service!Fits
<1>3. MappingAddress(t, c.addr) \in Int
  BY <1>1, ConstantsAssumption DEF MappingAddress
<1>4. \A k \in 0..(c.nb - 1) : mapping[t][MappingAddress(t, c.addr) + k] \in Word
  BY <1>1, <1>2, ValuesType
<1>5. GetWords(data, c.nb)
        = [k \in 0..(c.nb - 1) |-> mapping[t][MappingAddress(t, c.addr) + k]]
  BY <1>3, <1>4, WordsThrough
<1>6. Service!Values(c)
        = [k \in 0..(c.nb - 1) |-> mapping[t][MappingAddress(t, c.addr) + k]]
  BY <1>1, ReadsGiven
<1> QED
  BY <1>5, <1>6

(* check_confirmation accepts the answer to a call.                           *)
LEMMA AnswerConfirmed ==
    ASSUME Carries(call, req), Answers(call, req, rsp, mapping),
           call.op # "report_slave_id" => rsp.length = ResponseLength(req)
    PROVE  Confirmed
<1>1. call.op \in Operations /\ rsp.fn = req.fn /\ req.fn = FunctionOf(call.op)
  BY DEF Carries, Answers
<1>2. rsp.fn = MODBUS_FC_REPORT_SLAVE_ID \/ rsp.length = ResponseLength(req)
  BY <1>1, Groups
<1>3. ASSUME rsp.fn \in ReadBitsFns PROVE BytesOfBits(req.nb) = rsp.count
  <2>1. call.op \in BitReads
    BY <1>1, <1>3, Groups
  <2> QED
    BY <2>1 DEF Carries, Answers
<1>4. ASSUME rsp.fn \in ReadRegistersFns PROVE req.nb = rsp.count \div 2
  <2>1. call.op \in WordReads
    BY <1>1, <1>4, Groups
  <2>2. rsp.count = 2 * call.nb /\ call.nb \in Nat /\ req.nb = call.nb
    BY <2>1 DEF Carries, Answers
  <2> QED
    BY <2>2
<1>5. ASSUME rsp.fn \in WriteMultipleFns
      PROVE  rsp.addr = req.addr /\ rsp.nb = req.nb
  <2>1. call.op \in Multiples
    BY <1>1, <1>5, Groups
  <2> QED
    BY <2>1 DEF Answers
<1>6. ASSUME rsp.fn \in WriteSingleFns
      PROVE  rsp.addr = req.addr /\ rsp.data = req.data
  <2>1. call.op \in Singles
    BY <1>1, <1>6, Groups
  <2> QED
    BY <2>1 DEF Answers
<1> QED
  BY <1>1, <1>2, <1>3, <1>4, <1>5, <1>6 DEF Confirmed

(* The call returns what the service promises, and gives it to the caller.    *)
LEMMA AnswerDelivered ==
    ASSUME mapping \in Mappings, Carries(call, req),
           Answers(call, req, rsp, mapping), Service!Fits(call)
    PROVE  /\ ReturnValue = Service!Returned(call)
           /\ Delivered = Service!Values(call)
<1>1. call.op \in Operations /\ rsp.fn = req.fn /\ req.fn = FunctionOf(call.op)
  BY DEF Carries, Answers
<1>2. CASE call.op \in BitReads
  <2>1. /\ call.op \in Service!Reads /\ rsp.fn \in ReadBitsFns
        /\ call.addr \in Nat /\ call.nb \in Nat
    BY <1>1, <1>2, Groups DEF Carries, BitReads, Service!Reads
  <2>2. call.op \notin WordReads \cup Multiples \cup {"report_slave_id"}
    BY <1>2 DEF BitReads, WordReads, Multiples
  <2>3. /\ rsp.fn \notin ReadRegistersFns /\ rsp.fn \notin WriteMultipleFns
        /\ rsp.fn # MODBUS_FC_REPORT_SLAVE_ID
    BY <1>1, <2>2, Groups
  <2>4. ReturnValue = call.nb /\ Service!Returned(call) = call.nb
    BY <2>1, <2>2, <2>3 DEF ReturnValue, Service!Returned
  <2>5. Delivered = GetBits(rsp.data, call.nb)
    BY <2>1, <2>3 DEF Delivered
  <2>6. GetBits(rsp.data, call.nb) = Service!Values(call)
    <3>1. PICK t : t = Service!ReadTable(call.op)
      OBVIOUS
    <3>2. rsp.data = PutBits(mapping[t], MappingAddress(t, call.addr), call.nb)
      BY <1>2, <3>1 DEF Answers
    <3> QED
      BY <1>2, <2>1, <3>1, <3>2, BitsDelivered
  <2> QED
    BY <2>4, <2>5, <2>6
<1>3. CASE call.op \in WordReads
  <2>1. /\ call.op \in Service!Reads /\ rsp.fn \in ReadRegistersFns
        /\ call.addr \in Nat /\ call.nb \in Nat
    BY <1>1, <1>3, Groups DEF Carries, WordReads, Service!Reads
  <2>2. call.op \notin BitReads \cup Multiples \cup {"report_slave_id"}
    BY <1>3 DEF BitReads, WordReads, Multiples
  <2>3. /\ rsp.fn \notin ReadBitsFns /\ rsp.fn \notin WriteMultipleFns
        /\ rsp.fn # MODBUS_FC_REPORT_SLAVE_ID
    BY <1>1, <2>2, Groups
  <2>4. rsp.count \div 2 = call.nb
    <3>1. rsp.count = 2 * call.nb
      BY <1>3 DEF Answers
    <3> QED
      BY <2>1, <3>1
  <2>5. ReturnValue = call.nb /\ Service!Returned(call) = call.nb
    BY <2>1, <2>2, <2>3, <2>4 DEF ReturnValue, Service!Returned
  <2>6. Delivered = GetWords(rsp.data, call.nb)
    BY <2>1, <2>3, <2>4 DEF Delivered
  <2>7. GetWords(rsp.data, call.nb) = Service!Values(call)
    <3>1. PICK t : t = Service!ReadTable(call.op)
      OBVIOUS
    <3>2. rsp.data = PutWords(mapping[t], MappingAddress(t, call.addr), call.nb)
      BY <1>3, <3>1 DEF Answers
    <3> QED
      BY <1>3, <2>1, <3>1, <3>2, WordsDelivered
  <2> QED
    BY <2>5, <2>6, <2>7
<1>4. CASE call.op = "report_slave_id"
  <2>1. call.op \notin BitReads \cup WordReads \cup Multiples
        /\ call.op \notin Service!Reads
    BY <1>4 DEF BitReads, WordReads, Multiples, Service!Reads
  <2>2. /\ rsp.fn \notin ReadBitsFns /\ rsp.fn \notin ReadRegistersFns
        /\ rsp.fn \notin WriteMultipleFns /\ rsp.fn = MODBUS_FC_REPORT_SLAVE_ID
    BY <1>1, <1>4, <2>1, Groups
  <2>3. /\ rsp.count = Len(Identity)
        /\ rsp.data = [k \in 0..(Len(Identity) - 1) |-> Identity[k + 1]]
    BY <1>4 DEF Answers
  <2>4. ReturnValue = Service!Returned(call)
    BY <1>4, <2>1, <2>2, <2>3 DEF ReturnValue, Service!Returned
  <2>5. Delivered = [i \in {j \in 0..(Len(Identity) - 1) : j < call.nb} |->
                        rsp.data[i]]
    BY <2>2, <2>3 DEF Delivered
  <2>6. Service!Values(call)
          = [i \in {j \in 0..(Len(Identity) - 1) : j < call.nb} |-> Identity[i + 1]]
    BY <1>4, <2>1 DEF Service!Values
  <2>7. \A i \in {j \in 0..(Len(Identity) - 1) : j < call.nb} :
            rsp.data[i] = Identity[i + 1]
    BY <2>3
  <2>8. Delivered = Service!Values(call)
    BY <2>5, <2>6, <2>7, Zenon
  <2> QED
    BY <2>4, <2>8
<1>5. CASE call.op \notin BitReads \cup WordReads \cup {"report_slave_id"}
  <2>1. call.op \in Singles \cup Multiples \cup {"mask_write_register"}
    BY <1>1, <1>5 DEF Operations
  <2>2. call.op \notin Service!Reads
    BY <1>5 DEF BitReads, WordReads, Service!Reads
  <2>3. /\ rsp.fn \notin ReadBitsFns /\ rsp.fn \notin ReadRegistersFns
        /\ rsp.fn # MODBUS_FC_REPORT_SLAVE_ID
        /\ rsp.fn \in WriteMultipleFns <=> call.op \in Multiples
    BY <1>1, <1>5, Groups
  <2>4. Delivered = Service!Values(call)
    BY <1>5, <2>2, <2>3 DEF Delivered, Service!Values
  <2>5. Service!Returned(call) = call.wnb
    BY <1>5, <2>2 DEF Service!Returned
  <2>6. ReturnValue = IF call.op \in Multiples THEN rsp.nb ELSE 1
    BY <2>3 DEF ReturnValue
  <2>7. ReturnValue = call.wnb
    BY <2>1, <2>6 DEF Answers, Carries
  <2> QED
    BY <2>4, <2>5, <2>7
<1> QED
  BY <1>2, <1>3, <1>4, <1>5

(* A confirmation gives the caller what the service promises, and an          *)
(* exception nothing.                                                         *)
LEMMA ConfirmOutcome ==
    ASSUME RInv, Confirm
    PROVE  \/ /\ rsp.fn < 128 /\ Service!Fits(call)
              /\ Answers(call, req, rsp, mapping)
              /\ result' = Service!Returned(call) /\ dest' = Service!Values(call)
           \/ /\ ~(rsp.fn < 128) /\ ~Service!Fits(call)
              /\ result' = -1 /\ dest' = dest
<1>1. phase = "confirmation"
  BY DEF Confirm
<1>2. /\ Carries(call, req) /\ call.op \in Operations
      /\ req.fn = FunctionOf(call.op) /\ mapping \in Mappings
  BY <1>1, OnTheLine
<1>3. rsp.fn \in Nat
  BY <1>1 DEF RInv, IInv, TypeOK, IsMessage, Message
<1>4. CASE rsp.fn < 128
  <2>1. /\ Service!Fits(call) /\ Answers(call, req, rsp, mapping)
        /\ call.op # "report_slave_id" => rsp.length = ResponseLength(req)
    BY <1>1, <1>4 DEF RInv, Outcome
  <2>2. Confirmed
    BY <1>2, <2>1, AnswerConfirmed
  <2>3. result' = ReturnValue /\ dest' = Delivered
    BY <2>2 DEF Confirm
  <2>4. /\ ReturnValue = Service!Returned(call)
        /\ Delivered = Service!Values(call)
    BY <1>2, <2>1, AnswerDelivered
  <2> QED
    BY <1>4, <2>1, <2>3, <2>4
<1>5. CASE ~(rsp.fn < 128)
  <2>1. ~Service!Fits(call)
    BY <1>1, <1>3, <1>5 DEF RInv, Outcome
  <2>2. req.fn \in 1..127
    BY <1>2, CallOfCode
  <2>3. rsp.fn # req.fn
    BY <1>3, <1>5, <2>2
  <2>4. result' = -1 /\ dest' = dest
    BY <2>3 DEF Confirm, Confirmed
  <2> QED
    BY <1>5, <2>1, <2>4
<1> QED
  BY <1>4, <1>5

(* The client returns what the server's tables hold, or fails.                *)
LEMMA ConfirmRefines ==
    ASSUME RInv, Confirm PROVE Asked' /\ Outcome' /\ ServiceStep
<1>1. /\ phase = "confirmation" /\ phase' = "idle"
      /\ UNCHANGED <<backend, mapping, call>>
  BY DEF Confirm
<1>2. Asked' /\ Outcome' /\ serviceState' = "idle"
  BY <1>1 DEF Asked, Outcome, serviceState
<1>3. ~Service!Broadcast(call)
  BY <1>1 DEF RInv, Outcome
<1>4. serviceState = IF rsp.fn < 128 THEN "executed" ELSE "called"
  BY <1>1 DEF serviceState
<1>5. Service!Return \/ Service!Fail
  BY <1>1, <1>2, <1>3, <1>4, ConfirmOutcome DEF Service!Return, Service!Fail
<1> QED
  BY <1>2, <1>5 DEF ServiceStep, Service!Next

(* Nothing answers what is addressed to every device, and the call fails.     *)
LEMMA TimeOutRefines ==
    ASSUME RInv, TimeOut PROVE Asked' /\ Outcome' /\ ServiceStep
<1>1. /\ phase = "silence" /\ phase' = "idle" /\ result' = -1
      /\ UNCHANGED <<backend, mapping, call, dest>>
  BY DEF TimeOut
<1>2. Asked' /\ Outcome' /\ serviceState' = "idle"
  BY <1>1 DEF Asked, Outcome, serviceState
<1>3. rsp.fn \in Nat
  BY <1>1 DEF RInv, IInv, TypeOK, IsMessage, Message
<1>4. Service!Broadcast(call)
  BY <1>1 DEF RInv, Outcome
<1>5. \/ serviceState = "executed"
      \/ serviceState = "called" /\ ~Service!Fits(call)
  BY <1>1, <1>3 DEF serviceState, RInv, Outcome
<1>6. Service!Fail
  BY <1>1, <1>2, <1>4, <1>5 DEF Service!Fail
<1> QED
  BY <1>2, <1>6 DEF ServiceStep, Service!Next

(* Nothing changes, for the service neither.                                  *)
LEMMA StutterRefines ==
    ASSUME RInv, UNCHANGED vars PROVE Asked' /\ Outcome' /\ ServiceStep
<1>1. /\ phase' = phase /\ call' = call /\ req' = req /\ rsp' = rsp
      /\ mapping' = mapping /\ backend' = backend /\ result' = result
      /\ dest' = dest
  BY DEF vars
<1>2. Asked'
  BY <1>1 DEF RInv, Asked, Carries
<1>3. Answers(call, req, rsp, mapping)' <=> Answers(call, req, rsp, mapping)
  BY <1>1, AnswersThen
<1>4. Outcome'
  BY <1>1, <1>3, SameCall, LengthThen DEF RInv, Outcome
<1>5. UNCHANGED Service!vars
  BY <1>1 DEF Service!vars, serviceState
<1> QED
  BY <1>2, <1>4, <1>5 DEF ServiceStep

(* Every step of the library is a step of the service.                        *)
LEMMA NextRefines ==
    ASSUME RInv, Next PROVE Asked' /\ Outcome' /\ ServiceStep
<1>1. CASE ClientNext
  BY <1>1, ReadsRefine, WriteBitRefines, WriteRegisterRefines, WriteBitsRefines,
     WriteRegistersRefines, MaskWriteRefines, WriteAndReadRefines,
     ReportRefines, ConfirmRefines, TimeOutRefines DEF ClientNext
<1>2. CASE ServerNext
  <2>1. /\ "bits" \in Tables /\ "input_bits" \in Tables
        /\ "registers" \in Tables /\ "input_registers" \in Tables
    BY DEF Tables
  <2> QED
    BY <1>2, <2>1, ReplyReadBitsRefines, ReplyReadRegistersRefines,
       ReplyWriteBitRefines, ReplyWriteRegisterRefines, ReplyWriteBitsRefines,
       ReplyWriteRegistersRefines, ReplyMaskWriteRefines,
       ReplyWriteAndReadRefines, ReplyReportRefines DEF ServerNext
<1> QED
  BY <1>1, <1>2 DEF Next

(* RInv is inductive: the request on the line asks for the call and holds the *)
(* values it writes, and the reply is the answer to it, read from the tables  *)
(* as they are, exactly when the call fits them.                              *)
THEOREM RefinementInvariantHolds == Spec => []RInv
<1>1. Init => RInv
  BY InitHolds DEF Init, RInv, Asked, Outcome
<1>2. RInv /\ [Next]_vars => RInv'
  <2>1. ASSUME RInv, [Next]_vars PROVE RInv'
    <3>1. IInv'
      BY <2>1, NextStep, StutterStep DEF RInv
    <3>2. Asked' /\ Outcome'
      BY <2>1, NextRefines, StutterRefines
    <3> QED
      BY <3>1, <3>2 DEF RInv
  <2> QED
    BY <2>1
<1> QED
  BY <1>1, <1>2, PTL DEF Spec

(* For every call, every size and place of the tables and all values in them, *)
(* the request built by the client, modbus_reply and the confirmation are     *)
(* together the one step the manual pages promise: the call is executed when  *)
(* and only when it fits the tables, at once, and returns what they hold.     *)
THEOREM RefinesService == Spec => ImplementsService
<1>1. Init => Service!Init
  BY DEF Init, Service!Init, serviceState
<1>2. RInv /\ [Next]_vars => [Service!Next]_Service!vars
  BY NextRefines, StutterRefines DEF ServiceStep
<1> QED
  BY <1>1, <1>2, RefinementInvariantHolds, PTL
     DEF Spec, ImplementsService, Service!Spec
=============================================================================
