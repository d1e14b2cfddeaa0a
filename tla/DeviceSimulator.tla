---------------------------- MODULE DeviceSimulator ----------------------------
(* tests/sim_pv_inverter.c, sim_ev_charger.c and sim_heat_pump.c: one program  *)
(* with other constants.  It serves one client at a time, keeps registers for  *)
(* the time of a connection, and a file for ever.  A request is handled twice: *)
(* by main, which reads the query buffer itself, and by modbus_reply.          *)
EXTENDS Integers, Sequences

CONSTANTS
    NumRegisters, \* NUM_REGISTERS
    FileRegs,     \* registers whose line update_file finds in the file
    Requested,    \* register addresses the clients name
    Vals,         \* 16-bit values they send
    InitReg,      \* the value main gives all registers, 10
    InitLine,     \* the value initialize_file writes, in tenths
    MaxAdded,     \* bound on the lines appended to the file
    MaxFaults     \* bound on crashes and failing system calls

Words == {n \in Nat : n < 256 * 256}
Shown == {n \in Nat : n <= 10 * 256}  \* tenths of what two bytes over 256 can be

ASSUME DeviceAssumption ==
    /\ NumRegisters \in Nat \ {0} /\ Requested \subseteq Nat
    /\ FileRegs \subseteq 0..(NumRegisters - 1)
    /\ Vals \subseteq Words /\ InitReg \in Words /\ InitLine \in Shown
    /\ MaxAdded \in Nat /\ MaxFaults \in Nat

Registers == 0..(NumRegisters - 1)

VARIABLES
    backend, \* argv[1]
    phase,   \* "off", "setup", "listening", "serving" or "ended" (main returned)
    client,  \* the peer of the accepted connection is still there
    regs,    \* tab_registers
    past,    \* query[header_length + 5]: the byte after a request of 5 bytes
    exists,  \* the register file exists
    lines,   \* the values of its lines, in tenths
    added,   \* addresses of the lines update_file appended: the meter skips them
    origin,  \* history: what gave a register its value
    faults

process == <<backend, phase, client>>
file    == <<exists, lines, added>>
vars    == <<process, regs, past, file, origin, faults>>

Init ==
    /\ backend \in {"tcp", "tcppi", "rtu"} /\ phase = "off" /\ client = FALSE
    /\ regs = [a \in Registers |-> 0] /\ past = 0
    /\ exists = FALSE /\ lines = [a \in FileRegs |-> 0] /\ added = <<>>
    /\ origin = [a \in Registers |-> "reset"] /\ faults = 0

-----------------------------------------------------------------------------
(* The process and its connections.                                            *)

\* mutant: the file is opened with "w" whether it exists or not
StartAfresh ==
    /\ phase = "off" /\ phase' = "setup" /\ past' = 0
    /\ exists' = TRUE /\ lines' = [a \in FileRegs |-> InitLine] /\ added' = <<>>
    /\ UNCHANGED <<backend, client, regs, origin, faults>>

\* main up to the loop: query is cleared, initialize_file keeps a file
Start ==
    /\ phase = "off" /\ phase' = "setup" /\ past' = 0
    /\ exists' = TRUE
    /\ lines' = IF exists THEN lines ELSE [a \in FileRegs |-> InitLine]
    /\ UNCHANGED <<backend, client, regs, added, origin, faults>>

\* setup_server_simulation: without a socket of its own a serial line is
\* reported as a failure, and main returns
Listen ==
    /\ phase = "setup"
    /\ phase' = IF backend = "rtu" THEN "ended" ELSE "listening"
    /\ UNCHANGED <<backend, client, regs, past, file, origin, faults>>

\* over TCP_PI it is the socket that is missing: accept() on it fails unnoticed
ListenFails ==
    /\ phase = "setup" /\ backend # "rtu" /\ faults < MaxFaults
    /\ phase' = "ended" /\ faults' = faults + 1
    /\ UNCHANGED <<backend, client, regs, past, file, origin>>

Accept ==
    /\ phase = "listening" /\ phase' = "serving" /\ client' = TRUE
    /\ regs' = [a \in Registers |-> InitReg]
    /\ origin' = [a \in Registers |-> "reset"]
    /\ UNCHANGED <<backend, past, file, faults>>

\* accept() fails: fatal, or noticed by the first modbus_receive only
AcceptFails ==
    /\ phase = "listening" /\ faults < MaxFaults /\ faults' = faults + 1
    /\ phase' = IF backend = "tcp" THEN "ended" ELSE "setup"
    /\ UNCHANGED <<backend, client, regs, past, file, origin>>

ClientLeaves ==
    /\ phase = "serving" /\ client /\ client' = FALSE
    /\ UNCHANGED <<backend, phase, regs, past, file, origin, faults>>

\* mutant: main receives again from a client that has gone
ReceiveAgain == phase = "serving" /\ ~client /\ UNCHANGED vars

\* modbus_receive or modbus_reply fails: clean up, next round of main
CleanUp ==
    /\ phase = "serving" /\ ~client /\ phase' = "setup"
    /\ UNCHANGED <<backend, client, regs, past, file, origin, faults>>

Dies == phase' = "off" /\ client' = FALSE /\ UNCHANGED backend

Crash ==
    /\ phase \in {"setup", "listening", "serving"} /\ faults < MaxFaults
    /\ Dies /\ faults' = faults + 1
    /\ UNCHANGED <<regs, past, file, origin>>

-----------------------------------------------------------------------------
(* Requests.                                                                   *)

High(v) == v \div 256

\* mutant: the two bytes of a value are read for the low one
NotCut(v) == v

Low(v) == v % 256

\* printf("%6.1f") of n / 256, in tenths: to nearest, ties to even
Tenths(n) ==
    LET q == (10 * n) \div 256
        r == (10 * n) % 256
    IN  IF r > 128 \/ (r = 128 /\ q % 2 = 1) THEN q + 1 ELSE q

\* a write of main outside the mapping is undefined: it kills the process, or
\* meets padding and nobody notices (as in WriteSingle and WriteTwo)
OutsideKills(a) ==
    /\ phase = "serving" /\ a \notin Registers /\ faults < MaxFaults
    /\ Dies /\ faults' = faults + 1
    /\ UNCHANGED <<regs, past, file, origin>>

\* mutant: the line is not looked for
AppendAlways(a, n) ==
    /\ Len(added) < MaxAdded
    /\ added' = Append(added, a) /\ UNCHANGED <<exists, lines>>

\* update_file: the line is replaced, or one is appended that no later call,
\* and not the meter, recognizes
UpdateFile(a, n) ==
    \/ /\ a \in FileRegs
       /\ lines' = [lines EXCEPT ![a] = Tenths(n)] /\ UNCHANGED <<exists, added>>
    \/ /\ a \notin FileRegs /\ Len(added) < MaxAdded
       /\ added' = Append(added, a) /\ UNCHANGED <<exists, lines>>

\* function 0x06: main takes the low byte and the byte behind the request for
\* the value, modbus_reply the two bytes of the request
WriteSingle(a, v) ==
    /\ phase = "serving"
    /\ UpdateFile(a, Low(v) * 256 + past)
    /\ IF a \in Registers
       THEN /\ regs' = [regs EXCEPT ![a] = v]
            /\ origin' = [origin EXCEPT ![a] = "single"]
       ELSE UNCHANGED <<regs, origin>>
    /\ UNCHANGED <<process, past, faults>>

\* what main makes of two values that start one byte late
Shifted(v, w) == Low(v) * 256 + High(w)

\* function 0x10 with two registers: what main stores starts one byte late,
\* modbus_reply corrects it unless it rejects the request
Stored(a, v, w, end) ==
    IF {a, a + 1} \subseteq Registers
    THEN <<v, w>> ELSE <<Shifted(v, w), Shifted(w, end * 256)>>

WriteTwo(a, v, w, end) ==
    /\ phase = "serving"
    /\ regs' = [r \in Registers |-> CASE r = a     -> Stored(a, v, w, end)[1]
                                     [] r = a + 1 -> Stored(a, v, w, end)[2]
                                     [] OTHER     -> regs[r]]
    /\ origin' = [r \in Registers |-> IF r \in {a, a + 1} THEN "other" ELSE origin[r]]
    /\ past' = 4  \* the byte count
    /\ UNCHANGED <<process, file, faults>>

\* function 0x16 with an and_mask of 0, handled by modbus_reply alone
MaskWrite(a, v) ==
    /\ phase = "serving"
    /\ IF a \in Registers
       THEN /\ regs' = [regs EXCEPT ![a] = v]
            /\ origin' = [origin EXCEPT ![a] = "other"]
       ELSE UNCHANGED <<regs, origin>>
    /\ past' = High(v)
    /\ UNCHANGED <<process, file, faults>>

\* function 0x05: main dereferences tab_bits, which is NULL
WriteCoil ==
    /\ phase = "serving" /\ faults < MaxFaults
    /\ Dies /\ faults' = faults + 1
    /\ UNCHANGED <<regs, past, file, origin>>

Request ==
    \/ \E a \in Requested : OutsideKills(a)
    \/ \E a \in Requested, v \in Vals : WriteSingle(a, v) \/ MaskWrite(a, v)
    \/ \E a \in Requested, v, w \in Vals, end \in {0, 255} : WriteTwo(a, v, w, end)
    \/ WriteCoil

Next ==
    \/ Start \/ Listen \/ CleanUp \/ ListenFails \/ Accept \/ AcceptFails \/ ClientLeaves \/ Crash
    \/ Request

Spec == Init /\ [][Next]_vars

\* the process runs, and modbus_receive notices that its client has gone
FairSpec == Spec /\ WF_vars(Listen \/ CleanUp)

-----------------------------------------------------------------------------
(* Properties.                                                                 *)

TypeOK ==
    /\ backend \in {"tcp", "tcppi", "rtu"} /\ client \in BOOLEAN
    /\ phase \in {"off", "setup", "listening", "serving", "ended"}
    /\ regs \in [Registers -> Words] /\ past \in 0..255
    /\ exists \in BOOLEAN /\ lines \in [FileRegs -> Shown] /\ added \in Seq(Nat)
    /\ origin \in [Registers -> {"reset", "single", "other"}] /\ faults \in Nat

(* The file shows, in whole numbers and up to the rounding, the low byte of a  *)
(* register that a single write set last on this connection, whatever other    *)
(* requests came between and whatever they left in the query buffer            *)
(* (update_file of the inverter, modbus_reply).                                *)
FileShowsLowByte == phase = "serving" =>
    \A a \in FileRegs : origin[a] = "single" =>
        lines[a] - 10 * Low(regs[a]) \in 0..10

(* A file that exists changes by requests only: neither a restart nor the      *)
(* next connection, which both forget the registers, resets it                 *)
(* (initialize_file).                                                          *)
FileOutlivesProcess ==
    [][exists /\ <<lines, added>>' # <<lines, added>> => phase = "serving"]_vars

(* Over TCP the simulator is back at its listening socket after every client   *)
(* unless it died (main's loop, CleanUp).                                      *)
ListensAgain ==
    phase = "serving" /\ ~client /\ backend # "rtu"
        ~> phase \in {"listening", "off", "ended"}

(* "Update the file with the new register value": sim_pv_inverter.c line 241.  *)
FileHoldsRegister == phase = "serving" =>
    \A a \in FileRegs : origin[a] = "single" => lines[a] = 10 * regs[a]

(* "The simulator supports both TCP and RTU Modbus modes": README.md, Usage.   *)
RtuServes == phase = "setup" /\ backend = "rtu" ~> phase = "serving"
=============================================================================
