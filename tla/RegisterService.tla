--------------------------- MODULE RegisterService ---------------------------
(* What the manual pages of libmodbus (docs/modbus_*.md) promise of a call    *)
(* to one server: the server executes it in a single step, exactly when the   *)
(* call names a legal number of values inside the server's tables, and the    *)
(* caller then gets what the tables hold.  There are no messages here.        *)
EXTENDS Integers, Sequences

CONSTANTS
    Start,     \* first address of each table
    Size,      \* number of values in each table
    Identity   \* the bytes a server describes itself with

VARIABLES
    backend,   \* "tcp" or "rtu"
    mapping,   \* the tables: values, from the first address of the table on
    state,     \* "idle", "called" or "executed"
    call,      \* the current or last call
    result,    \* what the last call returned
    dest       \* the values it gave to its caller

vars == <<backend, mapping, state, call, result, dest>>

-----------------------------------------------------------------------------
Reads ==
    {"read_bits", "read_input_bits", "read_registers", "read_input_registers",
     "write_and_read_registers"}

Writes ==
    {"write_bit", "write_register", "write_bits", "write_registers",
     "mask_write_register", "write_and_read_registers"}

ReadTable(op) ==
    CASE op = "read_bits"            -> "bits"
      [] op = "read_input_bits"      -> "input_bits"
      [] op = "read_input_registers" -> "input_registers"
      [] OTHER                       -> "registers"

WriteTable(op) == IF op \in {"write_bit", "write_bits"} THEN "bits" ELSE "registers"

(* The quantities of the protocol specification, as src/modbus.h quotes them. *)
ReadLimit(op) == IF op \in {"read_bits", "read_input_bits"} THEN 2000 ELSE 125

WriteLimit(op) ==
    CASE op = "write_bits"               -> 1968
      [] op = "write_registers"          -> 123
      [] op = "write_and_read_registers" -> 121
      [] OTHER                           -> 1

Inside(t, a, n) == Start[t] <= a /\ a + n <= Start[t] + Size[t]

Fits(c) ==
    /\ c.op \in Reads => /\ c.nb \in 1..ReadLimit(c.op)
                         /\ Inside(ReadTable(c.op), c.addr, c.nb)
    /\ c.op \in Writes => /\ c.wnb \in 1..WriteLimit(c.op)
                          /\ Inside(WriteTable(c.op), c.waddr, c.wnb)
    /\ c.op = "report_slave_id" => c.nb > 0

(* Value k of what call c writes over the value v.                            *)
Written(c, k, v) ==
    IF c.op = "mask_write_register"
    THEN (v \cap c.src[0]) \cup (c.src[1] \ c.src[0])
    ELSE c.src[k]

Effect(c) ==
    IF c.op \in Writes
    THEN LET t == WriteTable(c.op)
             first == c.waddr - Start[t]
         IN  [mapping EXCEPT ![t] =
                [i \in DOMAIN mapping[t] |->
                    IF i \in first..(first + c.wnb - 1)
                    THEN Written(c, i - first, mapping[t][i])
                    ELSE mapping[t][i]]]
    ELSE mapping

Values(c) ==
    CASE c.op \in Reads ->
            [i \in 0..(c.nb - 1) |->
                mapping[ReadTable(c.op)][c.addr - Start[ReadTable(c.op)] + i]]
      [] c.op = "report_slave_id" ->
            [i \in {j \in 0..(Len(Identity) - 1) : j < c.nb} |-> Identity[i + 1]]
      [] OTHER -> dest

Returned(c) ==
    CASE c.op \in Reads              -> c.nb
      [] c.op = "report_slave_id"    -> Len(Identity)
      [] OTHER                       -> c.wnb

(* A device answers nothing that is addressed to all of them.                 *)
Broadcast(c) == backend = "rtu" /\ c.slave = 0

-----------------------------------------------------------------------------
Init ==
    /\ backend \in {"tcp", "rtu"}
    /\ state = "idle" /\ result = 0

Call == state = "idle" /\ state' = "called" /\ UNCHANGED <<backend, mapping, result, dest>>

(* The call is not sent: only one that does not fit may be refused.           *)
Refuse ==
    /\ state = "idle" /\ ~Fits(call') /\ result' = -1
    /\ UNCHANGED <<backend, mapping, state, dest>>

Execute ==
    /\ state = "called" /\ Fits(call) /\ state' = "executed"
    /\ mapping' = Effect(call)
    /\ UNCHANGED <<backend, call, result, dest>>

Return ==
    /\ state = "executed" /\ ~Broadcast(call) /\ state' = "idle"
    /\ result' = Returned(call) /\ dest' = Values(call)
    /\ UNCHANGED <<backend, mapping, call>>

Fail ==
    /\ \/ state = "called" /\ ~Fits(call)
       \/ state = "executed" /\ Broadcast(call)
    /\ state' = "idle" /\ result' = -1
    /\ UNCHANGED <<backend, mapping, call, dest>>

Next == Call \/ Refuse \/ Execute \/ Return \/ Fail

Spec == Init /\ [][Next]_vars
=============================================================================
