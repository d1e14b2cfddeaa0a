------------------------------ MODULE ModbusPdu ------------------------------
(* A call of the libmodbus client through both ends of the library: the       *)
(* request the client builds, the reply of modbus_reply on the tables of the  *)
(* server, and what the client makes of the confirmation (src/modbus.c), on   *)
(* the TCP and the RTU backend.  Messages arrive whole and in time; what a    *)
(* lost or late one does is the subject of ModbusTransaction.                 *)
(*                                                                            *)
(* A word is the set of its bits that are 1, a byte too.  A message keeps the *)
(* fields the code reads from fixed places, its data bytes from place 0 on,   *)
(* and the number of bytes that are sent; a field a function does not use is  *)
(* 0.  `count' is the byte after the function code of a response (an          *)
(* exception code or a number of bytes) or the byte count of a request.       *)
EXTENDS Integers, Sequences

CONSTANTS
    Start,       \* start_bits, ...: first address of each table
    Size,        \* nb_bits, ...: number of values of each table
    BitTables,   \* contents of a bit table, and of a caller's array of bits
    WordTables,  \* contents of a register table, and of an array of registers
    Identity,    \* what a server describes itself with, a sequence of bytes
    Slaves,      \* slave numbers of a call: the server's and the broadcast
    Addrs,       \* addresses of a call
    BitCounts,   \* numbers of bits of a call
    WordCounts,  \* numbers of registers (or bytes of a slave id) of a call
    Words,       \* values and masks of a call for one register
    MaxCalls     \* bound on the calls of a behaviour

Tables == {"bits", "input_bits", "registers", "input_registers"}

Byte == SUBSET (0..7)
Word == SUBSET (0..15)

ASSUME ConstantsAssumption ==
    /\ Start \in [Tables -> Nat] /\ Size \in [Tables -> Nat]
    /\ \A t \in {"bits", "input_bits"} :
           BitTables \subseteq [0..(Size[t] - 1) -> BOOLEAN]
    /\ \A t \in {"registers", "input_registers"} :
           WordTables \subseteq [0..(Size[t] - 1) -> Word]
    /\ Identity \in Seq(Byte) /\ Len(Identity) <= 251
    /\ Slaves \subseteq Nat /\ Addrs \subseteq Nat
    /\ BitCounts \subseteq Nat /\ WordCounts \subseteq Nat
    /\ Words \subseteq Word
    /\ MaxCalls \in Nat

MODBUS_FC_READ_COILS == 1
MODBUS_FC_READ_DISCRETE_INPUTS == 2
MODBUS_FC_READ_HOLDING_REGISTERS == 3
MODBUS_FC_READ_INPUT_REGISTERS == 4
MODBUS_FC_WRITE_SINGLE_COIL == 5
MODBUS_FC_WRITE_SINGLE_REGISTER == 6
MODBUS_FC_WRITE_MULTIPLE_COILS == 15
MODBUS_FC_WRITE_MULTIPLE_REGISTERS == 16
MODBUS_FC_REPORT_SLAVE_ID == 17
MODBUS_FC_MASK_WRITE_REGISTER == 22
MODBUS_FC_WRITE_AND_READ_REGISTERS == 23

MODBUS_BROADCAST_ADDRESS == 0
MODBUS_MAX_READ_BITS == 2000
MODBUS_MAX_WRITE_BITS == 1968
MODBUS_MAX_READ_REGISTERS == 125
MODBUS_MAX_WRITE_REGISTERS == 123
MODBUS_MAX_WR_WRITE_REGISTERS == 121
MODBUS_MAX_WR_READ_REGISTERS == 125

MAX_MESSAGE_LENGTH == 260

ILLEGAL_DATA_ADDRESS == 2
ILLEGAL_DATA_VALUE == 3

ReadBitsFns == {MODBUS_FC_READ_COILS, MODBUS_FC_READ_DISCRETE_INPUTS}

ReadRegistersFns ==
    {MODBUS_FC_READ_HOLDING_REGISTERS, MODBUS_FC_READ_INPUT_REGISTERS,
     MODBUS_FC_WRITE_AND_READ_REGISTERS}

WriteSingleFns == {MODBUS_FC_WRITE_SINGLE_COIL, MODBUS_FC_WRITE_SINGLE_REGISTER}

WriteMultipleFns ==
    {MODBUS_FC_WRITE_MULTIPLE_COILS, MODBUS_FC_WRITE_MULTIPLE_REGISTERS}

Functions ==
    ReadBitsFns \cup ReadRegistersFns \cup WriteSingleFns \cup WriteMultipleFns
    \cup {MODBUS_FC_REPORT_SLAVE_ID, MODBUS_FC_MASK_WRITE_REGISTER}

VARIABLES
    backend,   \* the backend of both contexts: "tcp" or "rtu"
    mapping,   \* the server's tab_bits, ..., tab_input_registers
    phase,     \* "idle", a request is sent: "indication", a reply is sent:
               \* "confirmation", or suppressed: "silence"
    call,      \* history: the current or last call of the client
    req,       \* the request it sent
    rsp,       \* the reply the server built
    result,    \* what the call returned last
    dest,      \* the array the caller reads values into
    calls      \* history: number of calls

vars == <<backend, mapping, phase, call, req, rsp, result, dest, calls>>

-----------------------------------------------------------------------------
(* Backends, src/modbus-tcp-private.h and src/modbus-rtu-private.h.           *)

HeaderLength    == IF backend = "tcp" THEN 7 ELSE 1
ChecksumLength  == IF backend = "tcp" THEN 0 ELSE 2
PresetReqLength == IF backend = "tcp" THEN 12 ELSE 6
PresetRspLength == IF backend = "tcp" THEN 8 ELSE 2

(* Words, bytes and bits.                                                     *)

LoWide(w) == w  \* mutant: the high byte is not masked away

Hi(w) == {b \in 0..7 : b + 8 \in w}
Lo(w) == w \cap (0..7)
Join(h, l) == (l \cap (0..7)) \cup {b \in 8..15 : b - 8 \in h}

BytesOfBits(nb) == (nb \div 8) + IF nb % 8 # 0 THEN 1 ELSE 0

(* n registers of array a from `from' on, high byte first.                    *)
PutWords(a, from, n) ==
    [k \in 0..(2 * n - 1) |->
        IF k % 2 = 0 THEN Hi(a[from + k \div 2]) ELSE Lo(a[from + k \div 2])]

GetWords(data, n) == [i \in 0..(n - 1) |-> Join(data[2 * i], data[2 * i + 1])]

(* n bits of array a from `from' on, the first one in bit 0 of byte 0.        *)
PutBits(a, from, n) ==
    [k \in 0..(BytesOfBits(n) - 1) |->
        {b \in 0..7 : 8 * k + b < n /\ a[from + 8 * k + b]}]

GetBits(data, n) == [i \in 0..(n - 1) |-> i % 8 \in data[i \div 8]]

-----------------------------------------------------------------------------
(* The length a receiver works out: first the bytes up to the byte count,     *)
(* from the function code, then the ones the byte count announces.            *)

MetaLengthWithoutMask(fn) ==  \* mutant: mask write is not in the table
    CASE fn <= MODBUS_FC_WRITE_SINGLE_REGISTER         -> 4
      [] fn \in WriteMultipleFns                       -> 5
      [] fn = MODBUS_FC_WRITE_AND_READ_REGISTERS       -> 9
      [] OTHER                                         -> 0

MetaLengthOfIndication(fn) ==
    CASE fn <= MODBUS_FC_WRITE_SINGLE_REGISTER         -> 4
      [] fn \in WriteMultipleFns                       -> 5
      [] fn = MODBUS_FC_MASK_WRITE_REGISTER            -> 6
      [] fn = MODBUS_FC_WRITE_AND_READ_REGISTERS       -> 9
      [] OTHER                                         -> 0

MetaLengthOfConfirmation(fn) ==
    CASE fn \in WriteSingleFns \cup WriteMultipleFns   -> 4
      [] fn = MODBUS_FC_MASK_WRITE_REGISTER            -> 6
      [] OTHER                                         -> 1

DataLengthOfIndication(m) ==
    IF m.fn \in WriteMultipleFns \cup {MODBUS_FC_WRITE_AND_READ_REGISTERS}
    THEN m.count ELSE 0

DataLengthOfConfirmation(m) ==
    IF \/ m.fn <= MODBUS_FC_READ_INPUT_REGISTERS
       \/ m.fn \in {MODBUS_FC_REPORT_SLAVE_ID, MODBUS_FC_WRITE_AND_READ_REGISTERS}
    THEN m.count ELSE 0

IndicationLength(m) ==
    HeaderLength + 1 + MetaLengthOfIndication(m.fn) + DataLengthOfIndication(m)
        + ChecksumLength

ConfirmationLength(m) ==
    HeaderLength + 1 + MetaLengthOfConfirmation(m.fn)
        + DataLengthOfConfirmation(m) + ChecksumLength

(* The length the client expects of the answer to request m, without report   *)
(* slave id, whose answer depends on the device.                              *)
ResponseLength(m) ==
    HeaderLength + ChecksumLength +
        CASE m.fn \in ReadBitsFns                       -> 2 + BytesOfBits(m.nb)
          [] m.fn \in ReadRegistersFns                  -> 2 + 2 * m.nb
          [] m.fn = MODBUS_FC_MASK_WRITE_REGISTER       -> 7
          [] OTHER                                      -> 5

-----------------------------------------------------------------------------
(* Building messages.                                                         *)

NoData == [k \in {} |-> {}]

RequestBasis(fn, slave, addr, nb) ==
    [fn |-> fn, slave |-> slave, addr |-> addr, nb |-> nb, waddr |-> 0,
     wnb |-> 0, count |-> 0, data |-> NoData, length |-> PresetReqLength]

ResponseBasis(fn) ==
    [RequestBasis(fn, req.slave, 0, 0) EXCEPT !.length = PresetRspLength]

WithChecksum(m) == [m EXCEPT !.length = @ + ChecksumLength]

Init ==
    /\ backend \in {"tcp", "rtu"}
    /\ mapping \in {[t \in Tables |->
                        IF t \in {"bits", "input_bits"} THEN b ELSE w] :
                     b \in BitTables, w \in WordTables}
    /\ phase = "idle" /\ result = 0 /\ dest = NoData /\ calls = 0
    /\ call = [op |-> "none"] /\ req = NoData /\ rsp = NoData

(* A call of the application: refused, or sent as request m.  The request     *)
(* comes with the data that follow the fields of m.                           *)
Request(c, tooMany, m) ==
    /\ phase = "idle" /\ calls < MaxCalls
    /\ call' = c /\ calls' = calls + 1
    /\ \/ tooMany /\ result' = -1 /\ UNCHANGED <<phase, req>>
       \/ ~tooMany /\ phase' = "indication" /\ req' = WithChecksum(m)
                   /\ UNCHANGED result
    /\ UNCHANGED <<backend, mapping, rsp, dest>>

(* modbus_read_bits, modbus_read_input_bits, modbus_read_registers,           *)
(* modbus_read_input_registers: nb is bounded from above only.                *)
ReadRequest(op, fn, counts, max) ==
    \E slave \in Slaves, addr \in Addrs, nb \in counts :
        Request([op |-> op, slave |-> slave, addr |-> addr, nb |-> nb],
                nb > max, RequestBasis(fn, slave, addr, nb))

ReadBits ==
    ReadRequest("read_bits", MODBUS_FC_READ_COILS, BitCounts,
                MODBUS_MAX_READ_BITS)

ReadInputBits ==
    ReadRequest("read_input_bits", MODBUS_FC_READ_DISCRETE_INPUTS, BitCounts,
                MODBUS_MAX_READ_BITS)

ReadRegisters ==
    ReadRequest("read_registers", MODBUS_FC_READ_HOLDING_REGISTERS, WordCounts,
                MODBUS_MAX_READ_REGISTERS)

ReadInputRegisters ==
    ReadRequest("read_input_registers", MODBUS_FC_READ_INPUT_REGISTERS,
                WordCounts, MODBUS_MAX_READ_REGISTERS)

(* modbus_write_bit sends 0xFF00 or 0 in the place of nb.                     *)
WriteBit ==
    \E slave \in Slaves, addr \in Addrs, status \in BOOLEAN :
        Request([op |-> "write_bit", slave |-> slave, waddr |-> addr, wnb |-> 1,
                 src |-> [i \in {0} |-> status]],
                FALSE,
                [RequestBasis(MODBUS_FC_WRITE_SINGLE_COIL, slave, addr, 0) EXCEPT
                    !.data = [k \in 0..1 |->
                                IF status /\ k = 0 THEN 0..7 ELSE {}]])

WriteRegister ==
    \E slave \in Slaves, addr \in Addrs, value \in Words :
        Request([op |-> "write_register", slave |-> slave, waddr |-> addr,
                 wnb |-> 1, src |-> [i \in {0} |-> value]],
                FALSE,
                [RequestBasis(MODBUS_FC_WRITE_SINGLE_REGISTER, slave, addr, 0)
                    EXCEPT !.data = PutWords([i \in {0} |-> value], 0, 1)])

WriteBits ==
    \E slave \in Slaves, addr \in Addrs, nb \in BitCounts, src \in BitTables :
        Request([op |-> "write_bits", slave |-> slave, waddr |-> addr,
                 wnb |-> nb, src |-> src],
                nb > MODBUS_MAX_WRITE_BITS,
                [RequestBasis(MODBUS_FC_WRITE_MULTIPLE_COILS, slave, addr, nb)
                    EXCEPT !.count  = BytesOfBits(nb) % 256,
                           !.data   = PutBits(src, 0, nb),
                           !.length = @ + 1 + BytesOfBits(nb)])

WriteRegisters ==
    \E slave \in Slaves, addr \in Addrs, nb \in WordCounts, src \in WordTables :
        Request([op |-> "write_registers", slave |-> slave, waddr |-> addr,
                 wnb |-> nb, src |-> src],
                nb > MODBUS_MAX_WRITE_REGISTERS,
                [RequestBasis(MODBUS_FC_WRITE_MULTIPLE_REGISTERS, slave, addr, nb)
                    EXCEPT !.count  = (2 * nb) % 256,
                           !.data   = PutWords(src, 0, nb),
                           !.length = @ + 1 + 2 * nb])

(* The place of nb is given back before the two masks are appended.           *)
MaskWriteRegister ==
    \E slave \in Slaves, addr \in Addrs, and_mask, or_mask \in Words :
        LET masks == [i \in 0..1 |-> IF i = 0 THEN and_mask ELSE or_mask]
        IN  Request([op |-> "mask_write_register", slave |-> slave,
                     waddr |-> addr, wnb |-> 1, src |-> masks],
                    FALSE,
                    [RequestBasis(MODBUS_FC_MASK_WRITE_REGISTER, slave, addr, 0)
                        EXCEPT !.data = PutWords(masks, 0, 2),
                               !.length = @ - 2 + 4])

WriteAndReadRegisters ==
    \E slave \in Slaves, waddr, addr \in Addrs, wnb, nb \in WordCounts,
       src \in WordTables :
        Request([op |-> "write_and_read_registers", slave |-> slave,
                 addr |-> addr, nb |-> nb, waddr |-> waddr, wnb |-> wnb,
                 src |-> src],
                \/ wnb > MODBUS_MAX_WR_WRITE_REGISTERS
                \/ nb > MODBUS_MAX_WR_READ_REGISTERS,
                [RequestBasis(MODBUS_FC_WRITE_AND_READ_REGISTERS, slave, addr, nb)
                    EXCEPT !.waddr  = waddr,
                           !.wnb    = wnb,
                           !.count  = (2 * wnb) % 256,
                           !.data   = PutWords(src, 0, wnb),
                           !.length = @ + 5 + 2 * wnb])

(* max_dest is the nb of this call; the places of addr and nb are given back. *)
ReportSlaveId ==
    \E slave \in Slaves, max_dest \in WordCounts :
        Request([op |-> "report_slave_id", slave |-> slave, nb |-> max_dest],
                max_dest <= 0,
                [RequestBasis(MODBUS_FC_REPORT_SLAVE_ID, slave, 0, 0)
                    EXCEPT !.length = @ - 4])

-----------------------------------------------------------------------------
(* modbus_reply, a case of its switch at a time.                              *)

MappingAddress(t, addr) == addr - Start[t]

InsideOffByOne(t, addr, n) ==  \* mutant: the last value is refused
    MappingAddress(t, addr) >= 0 /\ MappingAddress(t, addr) + n < Size[t]

Inside(t, addr, n) ==
    MappingAddress(t, addr) >= 0 /\ MappingAddress(t, addr) + n <= Size[t]

(* The tables with v[0], ..., v[n - 1] written from address addr on.          *)
Store(t, addr, n, v) ==
    [mapping EXCEPT ![t] =
        [i \in DOMAIN mapping[t] |->
            IF i \in MappingAddress(t, addr)..(MappingAddress(t, addr) + n - 1)
            THEN v[i - MappingAddress(t, addr)] ELSE mapping[t][i]]]

ExceptionResponse(code) ==
    [ResponseBasis(req.fn + 128) EXCEPT !.count = code, !.length = @ + 1]

(* The server has read the request up to the end it expects.                  *)
Indicated(fn) ==
    phase = "indication" /\ req.fn = fn /\ IndicationLength(req) = req.length

(* A reply to a broadcast on a serial line is built and not sent.             *)
Answer(m) ==
    /\ rsp' = WithChecksum(m)
    /\ phase' = IF backend = "rtu" /\ req.slave = MODBUS_BROADCAST_ADDRESS
                THEN "silence" ELSE "confirmation"
    /\ UNCHANGED <<backend, call, req, result, dest, calls>>

Refuse(code) == Answer(ExceptionResponse(code)) /\ UNCHANGED mapping

(* The number of values is looked at before their place.                      *)
Reply(fn, legal, inside, m, tables) ==
    /\ Indicated(fn)
    /\ \/ ~legal /\ Refuse(ILLEGAL_DATA_VALUE)
       \/ legal /\ ~inside /\ Refuse(ILLEGAL_DATA_ADDRESS)
       \/ legal /\ inside /\ Answer(m) /\ mapping' = tables

BitsResponse(t) ==
    [ResponseBasis(req.fn) EXCEPT
        !.count  = BytesOfBits(req.nb) % 256,
        !.data   = PutBits(mapping[t], MappingAddress(t, req.addr), req.nb),
        !.length = @ + 1 + BytesOfBits(req.nb)]

RegistersResponse(t, tables) ==
    [ResponseBasis(req.fn) EXCEPT
        !.count  = (2 * req.nb) % 256,
        !.data   = PutWords(tables[t], MappingAddress(t, req.addr), req.nb),
        !.length = @ + 1 + 2 * req.nb]

(* memcpy of the whole request, of which the checksum is cut off first.       *)
Echo == [req EXCEPT !.length = @ - ChecksumLength]

(* The address and the number of values, copied from the request.             *)
Written ==
    [ResponseBasis(req.fn) EXCEPT
        !.addr = req.addr, !.nb = req.nb, !.length = @ + 4]

ReplyReadBits(fn, t) ==
    Reply(fn, req.nb \in 1..MODBUS_MAX_READ_BITS, Inside(t, req.addr, req.nb),
          BitsResponse(t), mapping)

ReplyReadRegisters(fn, t) ==
    Reply(fn, req.nb \in 1..MODBUS_MAX_READ_REGISTERS,
          Inside(t, req.addr, req.nb), RegistersResponse(t, mapping), mapping)

(* The data of a request of the library are 0xFF00 or 0, nothing else.        *)
ReplyWriteBit ==
    Reply(MODBUS_FC_WRITE_SINGLE_COIL, TRUE, Inside("bits", req.addr, 1), Echo,
          Store("bits", req.addr, 1, [i \in {0} |-> req.data[0] # {}]))

ReplyWriteRegister ==
    Reply(MODBUS_FC_WRITE_SINGLE_REGISTER, TRUE,
          Inside("registers", req.addr, 1), Echo,
          Store("registers", req.addr, 1, GetWords(req.data, 1)))

ReplyWriteBits ==
    Reply(MODBUS_FC_WRITE_MULTIPLE_COILS,
          req.nb \in 1..MODBUS_MAX_WRITE_BITS /\ req.nb <= 8 * req.count,
          Inside("bits", req.addr, req.nb), Written,
          Store("bits", req.addr, req.nb, GetBits(req.data, req.nb)))

ReplyWriteRegisters ==
    Reply(MODBUS_FC_WRITE_MULTIPLE_REGISTERS,
          req.nb \in 1..MODBUS_MAX_WRITE_REGISTERS /\ req.count = 2 * req.nb,
          Inside("registers", req.addr, req.nb), Written,
          Store("registers", req.addr, req.nb, GetWords(req.data, req.nb)))

Masked(data, and, or) == (data \cap and) \cup (or \ and)

ReplyMaskWriteRegister ==
    Reply(MODBUS_FC_MASK_WRITE_REGISTER, TRUE, Inside("registers", req.addr, 1),
          Echo,
          Store("registers", req.addr, 1,
                [i \in {0} |->
                    Masked(mapping["registers"]
                               [MappingAddress("registers", req.addr)],
                           GetWords(req.data, 2)[0], GetWords(req.data, 2)[1])]))

WriteFirst ==
    Store("registers", req.waddr, req.wnb, GetWords(req.data, req.wnb))

ReplyWriteAndRead(read) ==
    Reply(MODBUS_FC_WRITE_AND_READ_REGISTERS,
          /\ req.wnb \in 1..MODBUS_MAX_WR_WRITE_REGISTERS
          /\ req.nb \in 1..MODBUS_MAX_WR_READ_REGISTERS
          /\ req.count = 2 * req.wnb,
          /\ Inside("registers", req.addr, req.nb)
          /\ Inside("registers", req.waddr, req.wnb),
          RegistersResponse("registers", read), WriteFirst)

ReplyReadsFirst ==  \* mutant: the registers to return are read too early
    ReplyWriteAndRead(mapping)

(* The registers are written before the ones to return are read.              *)
ReplyWriteAndReadRegisters == ReplyWriteAndRead(WriteFirst)

ReplyReportSlaveId ==
    Reply(MODBUS_FC_REPORT_SLAVE_ID, TRUE, TRUE,
          [ResponseBasis(req.fn) EXCEPT
              !.count  = Len(Identity) % 256,
              !.data   = [k \in 0..(Len(Identity) - 1) |-> Identity[k + 1]],
              !.length = @ + 1 + Len(Identity)],
          mapping)

-----------------------------------------------------------------------------
(* The confirmation.                                                          *)

(* The reply has the length the request calls for, and repeats of the request *)
(* what check_confirmation compares.                                          *)
Confirmed ==
    /\ rsp.fn = req.fn
    /\ rsp.fn = MODBUS_FC_REPORT_SLAVE_ID \/ rsp.length = ResponseLength(req)
    /\ rsp.fn \in ReadBitsFns => BytesOfBits(req.nb) = rsp.count
    /\ rsp.fn \in ReadRegistersFns => req.nb = rsp.count \div 2
    /\ rsp.fn \in WriteMultipleFns => rsp.addr = req.addr /\ rsp.nb = req.nb
    /\ rsp.fn \in WriteSingleFns => rsp.addr = req.addr /\ rsp.data = req.data

(* What the call returns: check_confirmation counts bytes for the read of     *)
(* bits, and the call then returns its own nb.                                *)
ReturnValue ==
    CASE rsp.fn \in ReadBitsFns                         -> call.nb
      [] rsp.fn \in ReadRegistersFns                    -> rsp.count \div 2
      [] rsp.fn \in WriteMultipleFns                    -> rsp.nb
      [] rsp.fn = MODBUS_FC_REPORT_SLAVE_ID             -> rsp.count
      [] OTHER                                          -> 1

Delivered ==
    CASE rsp.fn \in ReadBitsFns      -> GetBits(rsp.data, call.nb)
      [] rsp.fn \in ReadRegistersFns -> GetWords(rsp.data, rsp.count \div 2)
      [] rsp.fn = MODBUS_FC_REPORT_SLAVE_ID ->
            [i \in {j \in 0..(rsp.count - 1) : j < call.nb} |-> rsp.data[i]]
      [] OTHER                       -> dest

Confirm ==
    /\ phase = "confirmation" /\ ConfirmationLength(rsp) = rsp.length
    /\ phase' = "idle"
    /\ \/ Confirmed /\ result' = ReturnValue /\ dest' = Delivered
       \/ ~Confirmed /\ result' = -1 /\ UNCHANGED dest
    /\ UNCHANGED <<backend, mapping, call, req, rsp, calls>>

(* Nothing comes before the response timeout.                                 *)
TimeOut ==
    /\ phase = "silence" /\ phase' = "idle" /\ result' = -1
    /\ UNCHANGED <<backend, mapping, call, req, rsp, dest, calls>>

ClientNext ==
    \/ ReadBits \/ ReadInputBits \/ ReadRegisters \/ ReadInputRegisters
    \/ WriteBit \/ WriteRegister \/ WriteBits \/ WriteRegisters
    \/ MaskWriteRegister \/ WriteAndReadRegisters \/ ReportSlaveId
    \/ Confirm \/ TimeOut

ServerNext ==
    \/ ReplyReadBits(MODBUS_FC_READ_COILS, "bits")
    \/ ReplyReadBits(MODBUS_FC_READ_DISCRETE_INPUTS, "input_bits")
    \/ ReplyReadRegisters(MODBUS_FC_READ_HOLDING_REGISTERS, "registers")
    \/ ReplyReadRegisters(MODBUS_FC_READ_INPUT_REGISTERS, "input_registers")
    \/ ReplyWriteBit \/ ReplyWriteRegister \/ ReplyWriteBits
    \/ ReplyWriteRegisters \/ ReplyMaskWriteRegister
    \/ ReplyWriteAndReadRegisters \/ ReplyReportSlaveId

Next == ClientNext \/ ServerNext

Spec == Init /\ [][Next]_vars

-----------------------------------------------------------------------------
Message(n) ==
    [fn : Nat, slave : Nat, addr : Nat, nb : Nat, waddr : Nat, wnb : Nat,
     count : 0..255, length : Nat, data : [0..(n - 1) -> Byte]]

Mappings ==
    [bits            : [0..(Size["bits"] - 1) -> BOOLEAN],
     input_bits      : [0..(Size["input_bits"] - 1) -> BOOLEAN],
     registers       : [0..(Size["registers"] - 1) -> Word],
     input_registers : [0..(Size["input_registers"] - 1) -> Word]]

IsMessage(m) == \E n \in 0..MAX_MESSAGE_LENGTH : m \in Message(n)

(* TypeOK: the tables keep their sizes and every value in them its width,     *)
(* whatever was written; messages are made of bytes.                          *)
TypeOK ==
    /\ backend \in {"tcp", "rtu"}
    /\ mapping \in Mappings
    /\ phase \in {"idle", "indication", "confirmation", "silence"}
    /\ phase # "idle" => IsMessage(req)
    /\ phase \in {"confirmation", "silence"} => IsMessage(rsp)
    /\ calls \in 0..MaxCalls

MaxAduLength == IF backend = "tcp" THEN 260 ELSE 256

(* FramesWhole: the receiver of a message, which knows of it only the         *)
(* function code and the byte count, reads exactly the bytes that were sent,  *)
(* in both directions, on both backends and for every number of values a call *)
(* may name, and no message is longer than the ADU of its backend.            *)
FramesWhole ==
    /\ phase = "indication" =>
           IndicationLength(req) = req.length /\ req.length <= MaxAduLength
    /\ phase \in {"confirmation", "silence"} =>
           ConfirmationLength(rsp) = rsp.length /\ rsp.length <= MaxAduLength

(* ImplementsService: call, reply and confirmation are together one step on   *)
(* the tables, taken exactly when the call fits them, and the caller is given *)
(* what the tables hold and the number of values the manual pages promise.    *)
serviceState ==
    CASE phase = "indication" -> "called"
      [] phase \in {"confirmation", "silence"} ->
           IF rsp.fn < 128 THEN "executed" ELSE "called"
      [] OTHER -> "idle"

Service == INSTANCE RegisterService WITH state <- serviceState

ImplementsService == Service!Spec
=============================================================================
