---------------------------- MODULE DataConversion ----------------------------
(* What an application makes of the arrays it reads and writes with the calls *)
(* of ModbusPdu (src/modbus-data.c, and macros of src/modbus.h): bytes of     *)
(* bits, and 32- and 64-bit values of registers.  They are functions of their *)
(* arguments and have no state; the ones that set a float write its bytes one *)
(* by one over registers of the host, the ones that get it shift registers.   *)
EXTENDS ModbusPdu

Hosts == {"little", "big"}  \* byte orders of a host

Orders == {"abcd", "dcba", "badc", "cdab"}

-----------------------------------------------------------------------------
(* Bits and bytes.                                                            *)

SetBitsFromByte(dst, idx, value) ==
    [i \in DOMAIN dst |-> IF i \in idx..(idx + 7) THEN i - idx \in value ELSE dst[i]]

SetBitsOneByte(dst, idx, nb, tab) ==  \* mutant: only the first byte is read
    [i \in DOMAIN dst |->
        IF i \in idx..(idx + nb - 1) THEN (i - idx) % 8 \in tab[0] ELSE dst[i]]

SetBitsFromBytes(dst, idx, nb, tab) ==
    [i \in DOMAIN dst |->
        IF i \in idx..(idx + nb - 1)
        THEN (i - idx) % 8 \in tab[(i - idx) \div 8] ELSE dst[i]]

(* nb is at most 8: more is an assertion failure.                             *)
GetByteFromBits(src, idx, nb) == {i \in 0..(nb - 1) : src[idx + i]}

-----------------------------------------------------------------------------
(* Floats.  The 32-bit pattern of a float is the sequence of its bytes, a     *)
(* being the one with the sign.                                               *)

(* The places of the bytes, in the order a function is named for.             *)
PlacesWordsOnly(order) ==  \* mutant: badc does not swap bytes
    CASE order = "abcd" -> <<1, 2, 3, 4>>
      [] order = "dcba" -> <<4, 3, 2, 1>>
      [] order = "badc" -> <<3, 4, 2, 1>>
      [] order = "cdab" -> <<3, 4, 1, 2>>

Places(order) ==
    CASE order = "abcd" -> <<1, 2, 3, 4>>
      [] order = "dcba" -> <<4, 3, 2, 1>>
      [] order = "badc" -> <<2, 1, 4, 3>>
      [] order = "cdab" -> <<3, 4, 1, 2>>

Permuted(bytes, order) ==
    <<bytes[Places(order)[1]], bytes[Places(order)[2]],
      bytes[Places(order)[3]], bytes[Places(order)[4]]>>

(* modbus_get_float_abcd, ...: src[0] and src[1] are shifted.                 *)
GetFloat(order, src) ==
    Permuted(<<Hi(src[0]), Lo(src[0]), Hi(src[1]), Lo(src[1])>>, order)

(* Two bytes of memory, as a register of the host.                            *)
InMemory(first, second, host) ==
    IF host = "big" THEN Join(first, second) ELSE Join(second, first)

(* modbus_set_float_abcd, ...: `out' points to bytes.                         *)
SetFloat(order, f, host) ==
    LET out == Permuted(f, order)
    IN  [i \in 0..1 |-> IF i = 0 THEN InMemory(out[1], out[2], host)
                                 ELSE InMemory(out[3], out[4], host)]

(* modbus_get_float and modbus_set_float, which are deprecated.               *)
GetFloatOld(src) == <<Hi(src[1]), Lo(src[1]), Hi(src[0]), Lo(src[0])>>

SetFloatOld(f) ==
    [i \in 0..1 |-> IF i = 0 THEN Join(f[3], f[4]) ELSE Join(f[1], f[2])]

-----------------------------------------------------------------------------
(* MODBUS_GET_INT32_FROM_INT16, ..., on the unsigned registers of a mapping.  *)

Shifted(w, n) == {b + n : b \in w}

GetInt32(tab, i) == Shifted(tab[i], 16) \cup tab[i + 1]

GetInt64LowFirst(tab, i) ==  \* mutant: the two halves are swapped
    GetInt32(tab, i) \cup Shifted(GetInt32(tab, i + 2), 32)

GetInt64(tab, i) ==
    Shifted(tab[i], 48) \cup Shifted(tab[i + 1], 32)
        \cup Shifted(tab[i + 2], 16) \cup tab[i + 3]

(* (int16_t) (value >> n)                                                     *)
Cut(value, n) == {b \in 0..15 : b + n \in value}

SetInt32(value) == [i \in 0..1 |-> Cut(value, 16 - 16 * i)]

SetInt64(value) == [i \in 0..3 |-> Cut(value, 48 - 16 * i)]

-----------------------------------------------------------------------------
(* The arrays of a caller whose call has succeeded.                           *)
BitsRead == phase = "idle" /\ call.op \in {"read_bits", "read_input_bits"} /\ result > 0

RegistersRead ==
    phase = "idle" /\ call.op \in {"read_registers", "read_input_registers"}
                   /\ result > 0

(* n registers from place i of the array on, as a pointer to them.            *)
Piece(i, n) == [k \in 0..(n - 1) |-> dest[i + k]]

(* BitsKept: the bytes an application makes of the bits it has read are those *)
(* of the response, the last one cut off where the bits end; an application   *)
(* that sets them into an array of its own, at the place they were read from, *)
(* gets the bits of the server there and changes no other                     *)
(* (modbus_get_byte_from_bits, modbus_set_bits_from_bytes, and                *)
(* response_io_status, modbus_read_bits).                                     *)
BitsKept ==
    BitsRead =>
        LET t       == IF call.op = "read_bits" THEN "bits" ELSE "input_bits"
            idx     == MappingAddress(t, call.addr)
            left(k) == IF result - 8 * k < 8 THEN result - 8 * k ELSE 8
            tab     == [k \in DOMAIN rsp.data |-> GetByteFromBits(dest, 8 * k, left(k))]
            own     == [i \in DOMAIN mapping[t] |-> ~mapping[t][i]]
            new     == SetBitsFromBytes(own, idx, result, tab)
        IN  /\ tab = rsp.data
            /\ \A i \in DOMAIN own :
                 (new[i] = mapping[t][i]) <=> (i \in idx..(idx + result - 1))
            /\ result >= 8 => SetBitsFromByte(own, idx, tab[0])
                                = SetBitsFromBytes(own, idx, 8, tab)

(* FloatsKept: registers that are read as a float, which is then set, are the *)
(* same registers on a big-endian host.  On a little-endian one the bytes of  *)
(* each register are swapped: there badc undoes abcd, and cdab dcba.  The     *)
(* deprecated functions undo each other on both, and get what cdab gets       *)
(* (modbus_get_float_abcd, modbus_set_float_abcd, ...).                       *)
Partner(order, host) ==
    IF host = "big" THEN order
    ELSE CASE order = "abcd" -> "badc"
           [] order = "badc" -> "abcd"
           [] order = "cdab" -> "dcba"
           [] order = "dcba" -> "cdab"

FloatKept(src) ==
    /\ \A order \in Orders, host \in Hosts :
         SetFloat(Partner(order, host), GetFloat(order, src), host) = src
    /\ SetFloatOld(GetFloatOld(src)) = src
    /\ GetFloatOld(src) = GetFloat("cdab", src)

FloatsKept ==
    RegistersRead => \A i \in 0..(result - 2) : FloatKept(Piece(i, 2))

(* FloatsRoundTrip: the two functions of an order are inverse.                *)
(* docs/modbus_set_float_abcd.md: it "shall set a float to 4 bytes in usual   *)
(* Modbus format"; docs/modbus_get_float_abcd.md: it "shall get a float from  *)
(* 4 bytes in usual Modbus format".                                           *)
FloatsRoundTrip ==
    RegistersRead =>
        \A i \in 0..(result - 2), host \in Hosts :
            SetFloat("abcd", GetFloat("abcd", Piece(i, 2)), host) = Piece(i, 2)

(* IntegersKept: integers of two and of four registers are kept when they are *)
(* set again, wherever in the array they start, and the one of four is made   *)
(* of those of its halves (MODBUS_GET_INT32_FROM_INT16, ...).                 *)
Int32Kept(src) == SetInt32(GetInt32(src, 0)) = src

Int64Kept(src) ==
    /\ SetInt64(GetInt64(src, 0)) = src
    /\ GetInt64(src, 0) = Shifted(GetInt32(src, 0), 32) \cup GetInt32(src, 2)

IntegersKept ==
    RegistersRead =>
        /\ \A i \in 0..(result - 2) :
             Int32Kept(Piece(i, 2)) /\ GetInt32(dest, i) = GetInt32(Piece(i, 2), 0)
        /\ \A i \in 0..(result - 4) :
             Int64Kept(Piece(i, 4)) /\ GetInt64(dest, i) = GetInt64(Piece(i, 4), 0)
=============================================================================
