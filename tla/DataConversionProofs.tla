------------------------- MODULE DataConversionProofs -------------------------
(* The conversions of registers, for every value of the registers and for     *)
(* whatever a call of ModbusPdu has read.                                     *)
EXTENDS DataConversion, ModbusPduProofs

(* A setter undoes the getter of its partner, up to the order of the bytes in *)
(* a register of the host.                                                    *)
LEMMA PartnersUndo ==
    ASSUME NEW a, NEW b, NEW c, NEW d, NEW order \in Orders, NEW host \in Hosts
    PROVE  Permuted(Permuted(<<a, b, c, d>>, order), Partner(order, host))
               = IF host = "big" THEN <<a, b, c, d>> ELSE <<b, a, d, c>>
<1>1. host \in {"big", "little"}
  BY DEF Hosts
<1>2. /\ Permuted(<<a, b, c, d>>, "abcd") = <<a, b, c, d>>
      /\ Permuted(<<a, b, c, d>>, "dcba") = <<d, c, b, a>>
      /\ Permuted(<<a, b, c, d>>, "badc") = <<b, a, d, c>>
      /\ Permuted(<<a, b, c, d>>, "cdab") = <<c, d, a, b>>
  BY DEF Permuted, Places
<1>3. CASE order = "abcd"
  <2>1. Partner(order, host) = IF host = "big" THEN "abcd" ELSE "badc"
    BY <1>3 DEF Partner
  <2> QED
    BY <1>2, <1>3, <2>1
<1>4. CASE order = "dcba"
  <2>1. Partner(order, host) = IF host = "big" THEN "dcba" ELSE "cdab"
    BY <1>4 DEF Partner
  <2>2. /\ Permuted(<<d, c, b, a>>, "dcba") = <<a, b, c, d>>
        /\ Permuted(<<d, c, b, a>>, "cdab") = <<b, a, d, c>>
    BY DEF Permuted, Places
  <2> QED
    BY <1>2, <1>4, <2>1, <2>2
<1>5. CASE order = "badc"
  <2>1. Partner(order, host) = IF host = "big" THEN "badc" ELSE "abcd"
    BY <1>5 DEF Partner
  <2>2. /\ Permuted(<<b, a, d, c>>, "badc") = <<a, b, c, d>>
        /\ Permuted(<<b, a, d, c>>, "abcd") = <<b, a, d, c>>
    BY DEF Permuted, Places
  <2> QED
    BY <1>2, <1>5, <2>1, <2>2
<1>6. CASE order = "cdab"
  <2>1. Partner(order, host) = IF host = "big" THEN "cdab" ELSE "dcba"
    BY <1>6 DEF Partner
  <2>2. /\ Permuted(<<c, d, a, b>>, "cdab") = <<a, b, c, d>>
        /\ Permuted(<<c, d, a, b>>, "dcba") = <<b, a, d, c>>
    BY DEF Permuted, Places
  <2> QED
    BY <1>2, <1>6, <2>1, <2>2
<1> QED
  BY <1>3, <1>4, <1>5, <1>6 DEF Orders

(* Every pair of registers survives a float.                                  *)
LEMMA FloatKeptAlways == ASSUME NEW src \in [0..1 -> Word] PROVE FloatKept(src)
<1>1. Join(Hi(src[0]), Lo(src[0])) = src[0] /\ Join(Hi(src[1]), Lo(src[1])) = src[1]
  BY JoinParts
<1>2. ASSUME NEW order \in Orders, NEW host \in Hosts
      PROVE  SetFloat(Partner(order, host), GetFloat(order, src), host) = src
  <2> DEFINE out == Permuted(GetFloat(order, src), Partner(order, host))
  <2>1. out = IF host = "big"
              THEN <<Hi(src[0]), Lo(src[0]), Hi(src[1]), Lo(src[1])>>
              ELSE <<Lo(src[0]), Hi(src[0]), Lo(src[1]), Hi(src[1])>>
    BY PartnersUndo DEF GetFloat
  <2>2. InMemory(out[1], out[2], host) = src[0]
    BY <1>1, <2>1 DEF InMemory
  <2>3. InMemory(out[3], out[4], host) = src[1]
    BY <1>1, <2>1 DEF InMemory
  <2>4. SetFloat(Partner(order, host), GetFloat(order, src), host)
          = [i \in 0..1 |-> IF i = 0 THEN InMemory(out[1], out[2], host)
                                     ELSE InMemory(out[3], out[4], host)]
    BY DEF SetFloat
  <2> HIDE DEF out
  <2> QED
    BY <2>2, <2>3, <2>4
<1>3. SetFloatOld(GetFloatOld(src)) = src
  BY <1>1 DEF SetFloatOld, GetFloatOld
<1>4. GetFloatOld(src) = GetFloat("cdab", src)
  BY DEF GetFloatOld, GetFloat, Permuted, Places
<1> QED
  BY <1>2, <1>3, <1>4 DEF FloatKept

-----------------------------------------------------------------------------
(* Shifts move bits, one by one.                                              *)
LEMMA ShiftedBit ==
    ASSUME NEW w \in Word, NEW n \in Nat, NEW x \in Int
    PROVE  x \in Shifted(w, n) <=> x - n \in w
<1>1. ASSUME x \in Shifted(w, n) PROVE x - n \in w
  <2>1. PICK b \in w : x = b + n
    BY <1>1 DEF Shifted
  <2>2. b \in Int
    BY DEF Word
  <2> QED
    BY <2>1, <2>2
<1>2. ASSUME x - n \in w PROVE x \in Shifted(w, n)
  BY <1>2, x = (x - n) + n DEF Shifted
<1> QED
  BY <1>1, <1>2

(* Two shifts in turn are one.                                                *)
LEMMA ShiftedTwice ==
    ASSUME NEW w \in Word, NEW u \in Word
    PROVE  Shifted(Shifted(w, 16) \cup u, 32) = Shifted(w, 48) \cup Shifted(u, 32)
<1>1. ASSUME NEW b \in w PROVE b \in Int /\ (b + 16) + 32 = b + 48
  BY DEF Word
<1>2. Shifted(Shifted(w, 16), 32) = Shifted(w, 48)
  <2>1. ASSUME NEW x \in Shifted(Shifted(w, 16), 32) PROVE x \in Shifted(w, 48)
    <3>1. PICK c \in Shifted(w, 16) : x = c + 32
      BY DEF Shifted
    <3>2. PICK b \in w : c = b + 16
      BY DEF Shifted
    <3> QED
      BY <1>1, <3>1, <3>2 DEF Shifted
  <2>2. ASSUME NEW x \in Shifted(w, 48) PROVE x \in Shifted(Shifted(w, 16), 32)
    <3>1. PICK b \in w : x = b + 48
      BY DEF Shifted
    <3>2. b + 16 \in Shifted(w, 16) /\ x = (b + 16) + 32
      BY <1>1, <3>1 DEF Shifted
    <3> QED
      BY <3>2 DEF Shifted
  <2> QED
    BY <2>1, <2>2
<1>3. Shifted(Shifted(w, 16) \cup u, 32) = Shifted(Shifted(w, 16), 32) \cup Shifted(u, 32)
  BY Zenon DEF Shifted
<1> QED
  BY <1>2, <1>3

(* A bit of a register lies between 0 and 15.                                 *)
LEMMA WordBit == ASSUME NEW w \in Word, NEW x \in w PROVE x \in 0..15
BY DEF Word

(* Every pair of registers survives an integer of 32 bits.                    *)
LEMMA Int32KeptAlways == ASSUME NEW src \in [0..1 -> Word] PROVE Int32Kept(src)
<1>1. src[0] \in Word /\ src[1] \in Word
  OBVIOUS
<1> DEFINE v == Shifted(src[0], 16) \cup src[1]
<1>2. GetInt32(src, 0) = v
  BY DEF GetInt32
<1>3. ASSUME NEW x \in Int PROVE x \in v <=> x - 16 \in src[0] \/ x \in src[1]
  BY <1>1, ShiftedBit
<1> HIDE DEF v
<1>4. Cut(v, 16) = src[0]
  <2>1. ASSUME NEW b \in 0..15 PROVE b + 16 \in v <=> b \in src[0]
    <3>1. b + 16 - 16 = b /\ b + 16 \notin 0..15
      OBVIOUS
    <3> QED
      BY <1>1, <1>3, <3>1, WordBit
  <2> QED
    BY <1>1, <2>1, WordBit DEF Cut
<1>5. Cut(v, 0) = src[1]
  <2>1. ASSUME NEW b \in 0..15 PROVE b + 0 \in v <=> b \in src[1]
    <3>1. b + 0 = b /\ b - 16 \notin 0..15
      OBVIOUS
    <3> QED
      BY <1>1, <1>3, <3>1, WordBit
  <2> QED
    BY <1>1, <2>1, WordBit DEF Cut
<1>6. SetInt32(v) = src
  BY <1>4, <1>5 DEF SetInt32
<1> QED
  BY <1>2, <1>6 DEF Int32Kept

(* Every four registers survive an integer of 64 bits.                        *)
LEMMA Int64KeptAlways == ASSUME NEW src \in [0..3 -> Word] PROVE Int64Kept(src)
<1>1. /\ src[0] \in Word /\ src[1] \in Word
      /\ src[2] \in Word /\ src[3] \in Word
  OBVIOUS
<1> DEFINE v == GetInt64(src, 0)
<1>2. ASSUME NEW x \in Int
      PROVE  x \in v <=> \/ x - 48 \in src[0] \/ x - 32 \in src[1]
                         \/ x - 16 \in src[2] \/ x \in src[3]
  <2>1. v = Shifted(src[0], 48) \cup Shifted(src[1], 32)
              \cup Shifted(src[2], 16) \cup src[3]
    BY DEF GetInt64
  <2>2. /\ x \in Shifted(src[0], 48) <=> x - 48 \in src[0]
        /\ x \in Shifted(src[1], 32) <=> x - 32 \in src[1]
        /\ x \in Shifted(src[2], 16) <=> x - 16 \in src[2]
    BY <1>1, ShiftedBit
  <2> QED
    BY <2>1, <2>2
<1> HIDE DEF v
<1>3. Cut(v, 48) = src[0]
  <2>1. ASSUME NEW b \in 0..15 PROVE b + 48 \in v <=> b \in src[0]
    <3>1. /\ b + 48 - 48 = b /\ b + 48 - 32 \notin 0..15
          /\ b + 48 - 16 \notin 0..15 /\ b + 48 \notin 0..15
      OBVIOUS
    <3> QED
      BY <1>1, <1>2, <3>1, WordBit
  <2> QED
    BY <1>1, <2>1, WordBit DEF Cut
<1>4. Cut(v, 32) = src[1]
  <2>1. ASSUME NEW b \in 0..15 PROVE b + 32 \in v <=> b \in src[1]
    <3>1. /\ b + 32 - 32 = b /\ b + 32 - 48 \notin 0..15
          /\ b + 32 - 16 \notin 0..15 /\ b + 32 \notin 0..15
      OBVIOUS
    <3> QED
      BY <1>1, <1>2, <3>1, WordBit
  <2> QED
    BY <1>1, <2>1, WordBit DEF Cut
<1>5. Cut(v, 16) = src[2]
  <2>1. ASSUME NEW b \in 0..15 PROVE b + 16 \in v <=> b \in src[2]
    <3>1. /\ b + 16 - 16 = b /\ b + 16 - 48 \notin 0..15
          /\ b + 16 - 32 \notin 0..15 /\ b + 16 \notin 0..15
      OBVIOUS
    <3> QED
      BY <1>1, <1>2, <3>1, WordBit
  <2> QED
    BY <1>1, <2>1, WordBit DEF Cut
<1>6. Cut(v, 0) = src[3]
  <2>1. ASSUME NEW b \in 0..15 PROVE b + 0 \in v <=> b \in src[3]
    <3>1. /\ b + 0 = b /\ b + 0 - 48 \notin 0..15
          /\ b + 0 - 32 \notin 0..15 /\ b + 0 - 16 \notin 0..15
      OBVIOUS
    <3> QED
      BY <1>1, <1>2, <3>1, WordBit
  <2> QED
    BY <1>1, <2>1, WordBit DEF Cut
<1>7. SetInt64(v) = src
  <2>1. /\ SetInt64(v) = [i \in 0..3 |-> Cut(v, 48 - 16 * i)]
        /\ src = [i \in 0..3 |-> src[i]]
    BY DEF SetInt64
  <2>2. ASSUME NEW i \in 0..3 PROVE Cut(v, 48 - 16 * i) = src[i]
    <3>1. \/ i = 0 /\ 48 - 16 * i = 48
          \/ i = 1 /\ 48 - 16 * i = 32
          \/ i = 2 /\ 48 - 16 * i = 16
          \/ i = 3 /\ 48 - 16 * i = 0
      OBVIOUS
    <3> QED
      BY <1>3, <1>4, <1>5, <1>6, <3>1
  <2> QED
    BY <2>1, <2>2
<1>8. v = Shifted(GetInt32(src, 0), 32) \cup GetInt32(src, 2)
  <2>1. /\ GetInt32(src, 0) = Shifted(src[0], 16) \cup src[1]
        /\ GetInt32(src, 2) = Shifted(src[2], 16) \cup src[3]
    BY DEF GetInt32
  <2>2. Shifted(GetInt32(src, 0), 32) = Shifted(src[0], 48) \cup Shifted(src[1], 32)
    BY <1>1, <2>1, ShiftedTwice
  <2>3. v = Shifted(src[0], 48) \cup Shifted(src[1], 32)
              \cup Shifted(src[2], 16) \cup src[3]
    BY DEF v, GetInt64
  <2> QED
    BY <2>1, <2>2, <2>3
<1> QED
  BY <1>7, <1>8 DEF Int64Kept, v

-----------------------------------------------------------------------------
(* The number of bits of byte k that an application asks for.                 *)
Left(n, k) == IF n - 8 * k < 8 THEN n - 8 * k ELSE 8

(* A byte made of bits that were read is the one the bits came in.            *)
LEMMA SameByte ==
    ASSUME NEW a, NEW from \in Int, NEW n \in Nat, NEW bits,
           \A i \in 0..(n - 1) : bits[i] = a[from + i],
           NEW k \in 0..(BytesOfBits(n) - 1)
    PROVE  GetByteFromBits(bits, 8 * k, Left(n, k)) = PutBits(a, from, n)[k]
<1>1. GetByteFromBits(bits, 8 * k, Left(n, k))
        = {b \in 0..7 : 8 * k + b < n /\ a[from + 8 * k + b]}
  <2>1. k \in Nat /\ BytesOfBits(n) \in Int
    BY DEF BytesOfBits
  <2>2. ASSUME NEW b
        PROVE  b \in 0..(Left(n, k) - 1) <=> b \in 0..7 /\ 8 * k + b < n
    <3>1. CASE n - 8 * k < 8
      <4>1. Left(n, k) = n - 8 * k
        BY <3>1 DEF Left
      <4>2. PICK r \in Int : r = n - 8 * k
        BY <2>1
      <4>3. b \in 0..(r - 1) <=> b \in 0..7 /\ b < r
        <5>1. r < 8
          BY <3>1, <4>2
        <5>2. ASSUME b \in 0..(r - 1) PROVE b \in 0..7 /\ b < r
          BY <5>1, <5>2
        <5>3. ASSUME b \in 0..7, b < r PROVE b \in 0..(r - 1)
          BY <5>3
        <5> QED
          BY <5>2, <5>3
      <4>4. ASSUME b \in 0..7 PROVE b < r <=> 8 * k + b < n
        BY <2>1, <4>2, <4>4
      <4> QED
        BY <4>1, <4>2, <4>3, <4>4
    <3>2. CASE ~(n - 8 * k < 8)
      <4>1. Left(n, k) = 8
        BY <3>2 DEF Left
      <4> QED
        BY <2>1, <3>2, <4>1
    <3> QED
      BY <3>1, <3>2
  <2>3. ASSUME NEW b \in 0..7, 8 * k + b < n
        PROVE  bits[8 * k + b] = a[from + 8 * k + b]
    <3>1. 8 * k + b \in 0..(n - 1) /\ from + (8 * k + b) = from + 8 * k + b
      BY <2>1, <2>3
    <3>2. bits[8 * k + b] = a[from + (8 * k + b)]
      BY <3>1
    <3> QED
      BY <3>1, <3>2
  <2>4. GetByteFromBits(bits, 8 * k, Left(n, k))
          = {b \in 0..(Left(n, k) - 1) : bits[8 * k + b]}
    BY DEF GetByteFromBits
  <2>5. ASSUME NEW b
        PROVE  b \in {c \in 0..(Left(n, k) - 1) : bits[8 * k + c]}
                 <=> b \in {c \in 0..7 : 8 * k + c < n /\ a[from + 8 * k + c]}
    BY <2>2, <2>3, Zenon
  <2> QED
    BY <2>4, <2>5, Zenon
<1> QED
  BY <1>1 DEF PutBits

(* An array that differs from another everywhere.                             *)
Flipped(a) == [j \in DOMAIN a |-> ~a[j]]

(* Bits set from these bytes are the bits of the server, the others stay.     *)
LEMMA BitsSet ==
    ASSUME NEW size \in Nat, NEW a \in [0..(size - 1) -> BOOLEAN],
           NEW from \in Nat, NEW n \in Nat, from + n <= size,
           NEW i \in 0..(size - 1)
    PROVE  (SetBitsFromBytes(Flipped(a), from, n, PutBits(a, from, n))[i] = a[i])
               <=> (i \in from..(from + n - 1))
<1> DEFINE own == Flipped(a)
           data == PutBits(a, from, n)
           new == SetBitsFromBytes(own, from, n, data)
<1>1. DOMAIN own = 0..(size - 1) /\ own[i] = ~a[i] /\ a[i] \in BOOLEAN
  BY DEF Flipped
<1> HIDE DEF own, data
<1>2. new[i] = IF i \in from..(from + n - 1)
               THEN (i - from) % 8 \in data[(i - from) \div 8] ELSE own[i]
  BY <1>1 DEF SetBitsFromBytes
<1> HIDE DEF new
<1>3. ASSUME i \in from..(from + n - 1) PROVE new[i] = a[i]
  <2>1. PICK j \in 0..(n - 1) : j = i - from
    BY <1>3
  <2>2. from + j = i /\ from \in Int
    BY <2>1
  <2>3. (j % 8 \in data[j \div 8]) = a[from + j]
    BY <1>1, <2>2, BitThrough DEF data
  <2>4. new[i] = (j % 8 \in data[j \div 8])
    BY <1>2, <1>3, <2>1
  <2> QED
    BY <2>2, <2>3, <2>4
<1>4. ASSUME i \notin from..(from + n - 1) PROVE new[i] # a[i]
  BY <1>1, <1>2, <1>4
<1>5. (new[i] = a[i]) <=> (i \in from..(from + n - 1))
  BY <1>3, <1>4
<1> QED
  BY <1>5 DEF own, data, new

(* One byte is what the first of many is.                                     *)
LEMMA OneByteSet ==
    ASSUME NEW own, NEW from \in Int, NEW tab
    PROVE  SetBitsFromByte(own, from, tab[0]) = SetBitsFromBytes(own, from, 8, tab)
<1>1. ASSUME NEW i \in from..(from + 7)
      PROVE  (i - from) % 8 = i - from /\ (i - from) \div 8 = 0
  OBVIOUS
<1>2. from..(from + 7) = from..(from + 8 - 1)
  OBVIOUS
<1> QED
  BY <1>1, <1>2 DEF SetBitsFromByte, SetBitsFromBytes

-----------------------------------------------------------------------------
(* What a call that reads leaves in the array of its caller.                  *)

(* n values of table t from address a on are read into array bits.            *)
HasBits(t, a, n, data, bits) ==
    LET from == MappingAddress(t, a)
    IN  /\ n \in Nat /\ a \in Nat /\ Service!Inside(t, a, n)
        /\ data = PutBits(mapping[t], from, n)
        /\ bits = [i \in 0..(n - 1) |-> mapping[t][from + i]]

ReadInv ==
    /\ BitsRead => /\ result = call.nb
                   /\ HasBits(Service!ReadTable(call.op), call.addr, call.nb,
                              rsp.data, dest)
    /\ RegistersRead => result \in Nat /\ dest \in [0..(result - 1) -> Word]

(* Only a confirmation gives values to a caller.                              *)
LEMMA OnlyConfirm ==
    ASSUME Next, phase' = "idle", result' > 0 PROVE Confirm
<1>1. ~(\E c, tooMany, m : Request(c, tooMany, m))
  BY DEF Request
<1>2. /\ ~ReadBits /\ ~ReadInputBits /\ ~ReadRegisters /\ ~ReadInputRegisters
      /\ ~WriteBit /\ ~WriteRegister /\ ~WriteBits /\ ~WriteRegisters
      /\ ~MaskWriteRegister /\ ~ReportSlaveId
  BY <1>1, Zenon
     DEF ReadBits, ReadInputBits, ReadRegisters, ReadInputRegisters,
         ReadRequest, WriteBit, WriteRegister, WriteBits, WriteRegisters,
         MaskWriteRegister, ReportSlaveId
<1>3. ~WriteAndReadRegisters
  <2> SUFFICES ASSUME WriteAndReadRegisters PROVE FALSE
    OBVIOUS
  <2>1. PICK slave \in Slaves, waddr, addr \in Addrs, wnb, nb \in WordCounts,
             src \in WordTables :
          Request([op |-> "write_and_read_registers", slave |-> slave,
                   addr |-> addr, nb |-> nb, waddr |-> waddr, wnb |-> wnb,
                   src |-> src],
                  \/ wnb > MODBUS_MAX_WR_WRITE_REGISTERS
                  \/ nb > MODBUS_MAX_WR_READ_REGISTERS,
                  [RequestBasis(MODBUS_FC_WRITE_AND_READ_REGISTERS, slave, addr, nb)
                      EXCEPT !.waddr  = waddr,
                             !.wnb    = wnb,
                             !.count  = (2 * wnb) % 256,
                             !.data   = PutWords(src, 0, wnb),
                             !.length = @ + 5 + 2 * wnb])
    BY DEF WriteAndReadRegisters
  <2> QED
    BY <1>1, <2>1, Zenon
<1>4. ~TimeOut
  BY DEF TimeOut
<1>5. ~ServerNext
  <2>1. \A fn, legal, inside, m, tables : ~Reply(fn, legal, inside, m, tables)
    BY DEF Reply, Refuse, Answer
  <2> QED
    BY <2>1, Zenon
       DEF ServerNext, ReplyReadBits, ReplyReadRegisters, ReplyWriteBit,
           ReplyWriteRegister, ReplyWriteBits, ReplyWriteRegisters,
           ReplyMaskWriteRegister, ReplyWriteAndReadRegisters,
           ReplyWriteAndRead, ReplyReportSlaveId
<1> QED
  BY <1>2, <1>3, <1>4, <1>5 DEF Next, ClientNext

(* A confirmation delivers the values of the call.                            *)
LEMMA ReadInvConfirm ==
    ASSUME RInv, Confirm, result' > 0 PROVE ReadInv'
<1>1. /\ phase = "confirmation" /\ phase' = "idle"
      /\ UNCHANGED <<mapping, call, rsp>>
  BY DEF Confirm
<1>2. /\ Service!Fits(call) /\ Answers(call, req, rsp, mapping)
      /\ result' = Service!Returned(call) /\ dest' = Service!Values(call)
  BY ConfirmOutcome
<1>3. /\ Carries(call, req) /\ mapping \in Mappings
  BY <1>1, OnTheLine
<1>4. PICK t : t = Service!ReadTable(call.op)
  OBVIOUS
<1>5. ASSUME BitsRead'
      PROVE  result' = call.nb /\ HasBits(t, call.addr, call.nb, rsp.data, dest')
  <2>1. call.op \in BitReads /\ call.op \in Service!Reads
    BY <1>1, <1>5 DEF BitsRead, BitReads, Service!Reads
  <2>2. /\ call.addr \in Nat /\ call.nb \in Nat
        /\ rsp.data = PutBits(mapping[t], MappingAddress(t, call.addr), call.nb)
    BY <1>2, <1>3, <1>4, <2>1 DEF Carries, Answers
  <2>3. Service!Inside(t, call.addr, call.nb)
    BY <1>2, <1>4, <2>1 DEF Service!Fits
  <2>4. result' = call.nb
    <3>1. call.op # "report_slave_id"
      BY <2>1 DEF Service!Reads
    <3> QED
      BY <1>2, <2>1, <3>1 DEF Service!Returned
  <2>5. dest' = [i \in 0..(call.nb - 1) |->
                    mapping[t][MappingAddress(t, call.addr) + i]]
    BY <1>2, <1>4, <2>1, ReadsGiven
  <2> QED
    BY <2>2, <2>3, <2>4, <2>5 DEF HasBits
<1>6. ASSUME RegistersRead'
      PROVE  result' \in Nat /\ dest' \in [0..(result' - 1) -> Word]
  <2>1. call.op \in WordReads /\ call.op \in Service!Reads
    BY <1>1, <1>6 DEF RegistersRead, WordReads, Service!Reads
  <2>2. /\ call.addr \in Nat /\ call.nb \in Nat
        /\ rsp.data = PutWords(mapping[t], MappingAddress(t, call.addr), call.nb)
    BY <1>2, <1>3, <1>4, <2>1 DEF Carries, Answers
  <2>3. result' = call.nb
    <3>1. call.op # "report_slave_id"
      BY <2>1 DEF Service!Reads
    <3> QED
      BY <1>2, <2>1, <3>1 DEF Service!Returned
  <2>4. dest' = GetWords(rsp.data, call.nb)
    BY <1>2, <1>3, <1>4, <2>1, <2>2, WordsDelivered
  <2> QED
    BY <2>2, <2>3, <2>4, GetWordsType
<1>7. HasBits(t, call.addr, call.nb, rsp.data, dest')
        => HasBits(Service!ReadTable(call.op), call.addr, call.nb, rsp.data, dest)'
  BY <1>1, <1>4 DEF HasBits, Service!ReadTable, Service!Inside, MappingAddress,
                    PutBits, BytesOfBits
<1> QED
  BY <1>1, <1>5, <1>6, <1>7 DEF ReadInv

(* The array of the caller holds what was read for as long as the call is the *)
(* last one.                                                                  *)
LEMMA ReadInvHolds == Spec => []ReadInv
<1>1. Init => ReadInv
  BY DEF Init, ReadInv, RegistersRead, BitsRead
<1>2. RInv /\ ReadInv /\ [Next]_vars => ReadInv'
  <2> SUFFICES ASSUME RInv, ReadInv, [Next]_vars PROVE ReadInv'
    OBVIOUS
  <2>1. CASE UNCHANGED vars
    BY <2>1 DEF vars, ReadInv, RegistersRead, BitsRead, HasBits,
       Service!ReadTable, Service!Inside, MappingAddress, PutBits, BytesOfBits
  <2>2. CASE Next /\ phase' = "idle" /\ result' > 0
    BY <2>2, OnlyConfirm, ReadInvConfirm
  <2>3. CASE ~(phase' = "idle" /\ result' > 0)
    BY <2>3 DEF ReadInv, RegistersRead, BitsRead
  <2> QED
    BY <2>1, <2>2, <2>3
<1> QED
  BY <1>1, <1>2, RefinementInvariantHolds, PTL DEF Spec

(* Pieces of an array of registers are registers.                             *)
LEMMA PieceType ==
    ASSUME NEW k \in Nat, dest \in [0..(k - 1) -> Word],
           NEW n \in Nat, NEW i \in 0..(k - n)
    PROVE  Piece(i, n) \in [0..(n - 1) -> Word]
<1>1. ASSUME NEW j \in 0..(n - 1) PROVE i + j \in 0..(k - 1)
  OBVIOUS
<1> QED
  BY <1>1 DEF Piece

(* Whatever bits a call has read, at any address of tables of any size, the   *)
(* bytes an application makes of them are the ones of the response, and       *)
(* setting them elsewhere changes the bits that were read and no other        *)
(* (modbus_get_byte_from_bits, modbus_set_bits_from_bytes).                   *)
THEOREM BitsAreKept == Spec => []BitsKept
<1>1. RInv /\ ReadInv => BitsKept
  <2> SUFFICES ASSUME RInv, ReadInv, BitsRead PROVE BitsKept
    BY DEF BitsKept
  <2> DEFINE t == IF call.op = "read_bits" THEN "bits" ELSE "input_bits"
             a == mapping[t]
             idx == MappingAddress(t, call.addr)
             n == call.nb
             left(k) == IF result - 8 * k < 8 THEN result - 8 * k ELSE 8
             tab == [k \in DOMAIN rsp.data |->
                        GetByteFromBits(dest, 8 * k, left(k))]
             own == [i \in DOMAIN a |-> ~a[i]]
             new == SetBitsFromBytes(own, idx, result, tab)
  <2>1. t = Service!ReadTable(call.op) /\ t \in Tables
        /\ t \in {"bits", "input_bits"}
    BY DEF BitsRead, Service!ReadTable, Tables
  <2>2. result = n /\ HasBits(t, call.addr, n, rsp.data, dest)
    BY <2>1 DEF ReadInv
  <2>3. /\ Size[t] \in Nat /\ a \in [0..(Size[t] - 1) -> BOOLEAN]
        /\ n \in Nat
    BY <2>1, <2>2, ConstantsAssumption DEF RInv, IInv, TypeOK, Mappings, HasBits
  <2>4. idx \in Nat /\ idx + n <= Size[t] /\ idx \in Int
    BY <2>1, <2>2, ConstantsAssumption
       DEF HasBits, Service!Inside, MappingAddress
  <2>5. /\ rsp.data = PutBits(a, idx, n)
        /\ dest = [i \in 0..(n - 1) |-> a[idx + i]]
    BY <2>2 DEF HasBits
  <2>6. tab = rsp.data
    <3>1. /\ DOMAIN rsp.data = 0..(BytesOfBits(n) - 1)
          /\ rsp.data = [k \in 0..(BytesOfBits(n) - 1) |-> rsp.data[k]]
      BY <2>5 DEF PutBits
    <3>2. \A k : left(k) = Left(n, k)
      BY <2>2 DEF Left
    <3>3. \A i \in 0..(n - 1) : dest[i] = a[idx + i]
      BY <2>5
    <3>4. ASSUME NEW k \in 0..(BytesOfBits(n) - 1)
          PROVE  GetByteFromBits(dest, 8 * k, Left(n, k)) = rsp.data[k]
      <4>1. n \in Nat /\ idx \in Int /\ \A i \in 0..(n - 1) : dest[i] = a[idx + i]
        BY <2>3, <2>4, <3>3
      <4>2. rsp.data = PutBits(a, idx, n)
        BY <2>5
      <4> HIDE DEF a, idx, n, t, tab, own, new, left
      <4>3. GetByteFromBits(dest, 8 * k, Left(n, k)) = PutBits(a, idx, n)[k]
        BY <4>1, SameByte
      <4> QED
        BY <4>2, <4>3
    <3> QED
      BY <3>1, <3>2, <3>4
  <2>7. ASSUME NEW i \in DOMAIN own
        PROVE  (new[i] = a[i]) <=> (i \in idx..(idx + result - 1))
    <3>1. i \in 0..(Size[t] - 1) /\ own = Flipped(a)
      BY <2>3 DEF Flipped
    <3>2. new = SetBitsFromBytes(own, idx, n, PutBits(a, idx, n))
      BY <2>2, <2>5, <2>6
    <3> HIDE DEF own, idx, a, n, new, t
    <3>3. (SetBitsFromBytes(Flipped(a), idx, n, PutBits(a, idx, n))[i] = a[i])
            <=> (i \in idx..(idx + n - 1))
      BY <2>3, <2>4, <3>1, BitsSet
    <3> QED
      BY <2>2, <3>1, <3>2, <3>3
  <2>8. SetBitsFromByte(own, idx, tab[0]) = SetBitsFromBytes(own, idx, 8, tab)
    BY <2>4, OneByteSet
  <2> QED
    BY <2>6, <2>7, <2>8 DEF BitsKept
<1> QED
  BY <1>1, ReadInvHolds, RefinementInvariantHolds, PTL

(* Whatever registers a call has read, each pair of them survives the getter  *)
(* of a float and the setter that undoes it on the host                       *)
(* (modbus_get_float_abcd, modbus_set_float_abcd, ...).                       *)
THEOREM FloatsAreKept == Spec => []FloatsKept
<1>1. ReadInv => FloatsKept
  <2> SUFFICES ASSUME ReadInv, RegistersRead, NEW i \in 0..(result - 2)
               PROVE  FloatKept(Piece(i, 2))
    BY DEF FloatsKept
  <2>1. Piece(i, 2) \in [0..(2 - 1) -> Word]
    BY PieceType DEF ReadInv
  <2> QED
    BY <2>1, FloatKeptAlways, 2 - 1 = 1
<1> QED
  BY <1>1, ReadInvHolds, PTL

(* Whatever registers a call has read, the integers an application takes out  *)
(* of them at any place are set back to the same registers                    *)
(* (MODBUS_GET_INT32_FROM_INT16, MODBUS_SET_INT64_TO_INT16, ...).             *)
THEOREM IntegersAreKept == Spec => []IntegersKept
<1>1. ReadInv => IntegersKept
  <2> SUFFICES ASSUME ReadInv, RegistersRead PROVE IntegersKept
    BY DEF IntegersKept
  <2>1. ASSUME NEW i \in 0..(result - 2)
        PROVE  Int32Kept(Piece(i, 2)) /\ GetInt32(dest, i) = GetInt32(Piece(i, 2), 0)
    <3>1. Piece(i, 2) \in [0..1 -> Word]
      BY PieceType, 2 - 1 = 1 DEF ReadInv
    <3>2. Piece(i, 2)[0] = dest[i] /\ Piece(i, 2)[0 + 1] = dest[i + 1]
      BY DEF Piece
    <3> QED
      BY <3>1, <3>2, Int32KeptAlways DEF GetInt32
  <2>2. ASSUME NEW i \in 0..(result - 4)
        PROVE  Int64Kept(Piece(i, 4)) /\ GetInt64(dest, i) = GetInt64(Piece(i, 4), 0)
    <3>1. Piece(i, 4) \in [0..3 -> Word]
      BY PieceType, 4 - 1 = 3 DEF ReadInv
    <3>2. /\ Piece(i, 4)[0] = dest[i] /\ Piece(i, 4)[0 + 1] = dest[i + 1]
          /\ Piece(i, 4)[0 + 2] = dest[i + 2] /\ Piece(i, 4)[0 + 3] = dest[i + 3]
      BY DEF Piece
    <3> QED
      BY <3>1, <3>2, Int64KeptAlways DEF GetInt64
  <2> QED
    BY <2>1, <2>2 DEF IntegersKept
<1> QED
  BY <1>1, ReadInvHolds, PTL
=============================================================================
