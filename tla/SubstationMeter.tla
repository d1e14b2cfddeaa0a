---------------------------- MODULE SubstationMeter ----------------------------
(* tests/sim_substation_meter.c: the meter polls the register files of the    *)
(* three devices, keeps two totals, notifies the controller                   *)
(* (tests/sim_controller.c) of every change and writes a file of its own.     *)
(* Values are tenths, as in the files; a step is one call that other          *)
(* processes can observe.                                                     *)
EXTENDS Integers, Sequences

CONSTANTS
    InitCur, InitVol, \* first content of a device's file, in tenths
    PvVals,           \* values a request can put into the inverter's file
    Width,            \* 2^16: modbus_write_register takes a uint16_t
    MaxChanges,       \* bound on the changes of the inverter's file
    MaxRestarts,      \* bound on crashes of the meter and of the controller
    MaxPending        \* bound on the writes the controller is behind

ASSUME MeterAssumption ==
    /\ InitCur \in Nat /\ InitVol \in Nat /\ PvVals \subseteq Nat
    /\ Width \in Nat \ {0}
    /\ MaxChanges \in Nat /\ MaxRestarts \in Nat /\ MaxPending \in Nat

Devices == {"pv", "ev", "hp"}
Kinds == {"cur", "vol"}
Order == <<"pv", "ev", "hp">>   \* the order of the calls in main
Lines == <<"cur", "vol">>       \* the order of the lines in a device's file

\* the register a line of a device's file names, and the ones of the totals
Address(d, k) ==
    (CASE d = "hp" -> 0 [] d = "pv" -> 2 [] d = "ev" -> 4)
        + (IF k = "vol" THEN 20 ELSE 0)
TotalAddress(k) == IF k = "cur" THEN 10 ELSE 26
Registers == {Address(d, k) : d \in Devices, k \in Kinds} \cup {10, 26}

VARIABLES
    files,    \* device -> its file's values, or <<>> when absent or still empty
    smExists, \* substation_registers.txt exists
    sm,       \* its content: <<>> or <<prev, total>> as it was written
    mode,     \* of the meter: "off", "init" (before the loop) or "poll"
    step,     \* "open", "line", "current", "voltage", "truncate" or "save"
    dev,      \* position in Order
    snap,     \* the file being read: fgets buffers all of it at once
    line,     \* position in Lines
    prev,     \* prev_values at the devices' addresses
    total,    \* totalCurrent and totalVoltage
    saved,    \* history: this run of the meter has written its file
    link,     \* to the controller: "ok", "late" (answers come too late), "down", "none"
    pending,  \* writes sent that the controller has not executed
    ctrl,     \* tab_registers of the controller
    changes, restarts

outside == <<files, changes, restarts>>
memory  == <<prev, total>>
disk    == <<smExists, sm, saved>>
place   == <<mode, step, dev, snap, line>>
network == <<link, pending, ctrl>>
vars    == <<outside, memory, disk, place, network>>

Zero == [d \in Devices |-> [k \in Kinds |-> 0]]
NoTotal == [k \in Kinds |-> 0]

Init ==
    /\ files = [d \in Devices |-> <<>>]
    /\ smExists = FALSE /\ sm = <<>> /\ saved = FALSE
    /\ mode = "off" /\ step = "open" /\ dev = 1 /\ snap = <<>> /\ line = 1
    /\ prev = Zero /\ total = NoTotal
    /\ link = "none" /\ pending = <<>> /\ ctrl = [r \in Registers |-> 0]
    /\ changes = 0 /\ restarts = 0

-----------------------------------------------------------------------------
(* The device simulators, as far as the meter sees them.                      *)

\* initialize_file of a device
FileAppears(d) ==
    /\ files[d] = <<>>
    /\ files' = [files EXCEPT ![d] = <<InitCur, InitVol>>]
    /\ UNCHANGED <<changes, restarts, memory, disk, place, network>>

\* update_file of the inverter; the other devices never change such a line
FileChanges(l, v) ==
    /\ files["pv"] # <<>> /\ changes < MaxChanges
    /\ files' = [files EXCEPT !["pv"][l] = v] /\ changes' = changes + 1
    /\ UNCHANGED <<restarts, memory, disk, place, network>>

-----------------------------------------------------------------------------
(* modbus_write_register, from the meter's float to the controller.           *)

Whole(v) == IF v >= 0 THEN v \div 10 ELSE -((-v) \div 10)

\* mutant: a signed register
Signed(v) == {Whole(v)}

\* The conversion of a negative float to uint16_t is undefined: it wraps on
\* x86-64 and saturates to 0 on AArch64.
ToRegister(v) ==
    IF Whole(v) >= 0 THEN {Whole(v) % Width} ELSE {Whole(v) % Width, 0}

\* mutant: a notification that the link does not answer is not sent again
DropLate(a, v) ==
    \/ /\ link = "ok" /\ pending = <<>>
       /\ \E r \in ToRegister(v) : ctrl' = [ctrl EXCEPT ![a] = r]
       /\ UNCHANGED <<link, pending>>
    \/ /\ link \in {"ok", "late"}
       /\ link' = "late" /\ UNCHANGED <<pending, ctrl>>
    \/ /\ link \in {"down", "none"} /\ UNCHANGED network

\* Success; or the answer is late, and then the answers of all later calls on
\* the connection are (OutOfStepForGood of ModbusTransaction) although the
\* controller executes them; or the connection is gone.  The result is printed
\* and not used.
Notify(a, v) ==
    \/ /\ link = "ok" /\ pending = <<>>
       /\ \E r \in ToRegister(v) : ctrl' = [ctrl EXCEPT ![a] = r]
       /\ UNCHANGED <<link, pending>>
    \/ /\ link \in {"ok", "late"} /\ Len(pending) < MaxPending
       /\ link' = "late"
       /\ \E r \in ToRegister(v) : pending' = Append(pending, [addr |-> a, val |-> r])
       /\ UNCHANGED ctrl
    \/ /\ link \in {"down", "none"} /\ UNCHANGED network

-----------------------------------------------------------------------------
(* The meter.                                                                 *)

Fresh == \* the variables of a process that starts
    /\ dev' = 1 /\ snap' = <<>> /\ line' = 1
    /\ prev' = Zero /\ total' = NoTotal /\ saved' = FALSE

Start ==  \* main, initialize_modbus
    /\ mode = "off" /\ mode' = "init" /\ step' = "open"
    /\ Fresh
    /\ link' \in {"ok", "none"}
    /\ UNCHANGED <<smExists, sm, pending, ctrl, outside>>

\* fopen and the first fgets of initialize_registers, check_file_and_notify
Open ==
    /\ mode \in {"init", "poll"} /\ step = "open"
    /\ snap' = files[Order[dev]] /\ line' = 1 /\ step' = "line"
    /\ UNCHANGED <<mode, dev, outside, memory, disk, network>>

Device == Order[dev]
Kind == Lines[line]
Value == snap[line]

\* mutant: an import is accounted as an export
AddAlways(t, d, old, new) == t - old + new

\* totalCurrent or totalVoltage when a value changes: EV charger and heat pump
\* import (-), the inverter exports (+)
Account(t, d, old, new) == IF d = "pv" THEN t - old + new ELSE t + old - new

Take ==
    /\ total' = [total EXCEPT ![Kind] = Account(@, Device, prev[Device][Kind], Value)]
    /\ prev' = [prev EXCEPT ![Device][Kind] = Value]

\* a line of initialize_registers: nothing was read from this file before
InitLine ==
    /\ mode = "init" /\ step = "line" /\ line <= Len(snap)
    /\ Take /\ Notify(Address(Device, Kind), Value)
    /\ line' = line + 1
    /\ UNCHANGED <<mode, step, dev, snap, outside, disk>>

\* a line of check_file_and_notify
SameLine ==
    /\ mode = "poll" /\ step = "line" /\ line <= Len(snap)
    /\ prev[Device][Kind] = Value
    /\ line' = line + 1
    /\ UNCHANGED <<mode, step, dev, snap, outside, memory, disk, network>>

\* mutant: updateTotalValue is not called
ChangedLineOnly ==
    /\ mode = "poll" /\ step = "line" /\ line <= Len(snap)
    /\ prev[Device][Kind] # Value
    /\ Take /\ Notify(Address(Device, Kind), Value)
    /\ step' = "truncate"
    /\ UNCHANGED <<mode, dev, snap, line, outside, disk>>

ChangedLine ==
    /\ mode = "poll" /\ step = "line" /\ line <= Len(snap)
    /\ prev[Device][Kind] # Value
    /\ Take /\ Notify(Address(Device, Kind), Value)
    /\ step' = "current"
    /\ UNCHANGED <<mode, dev, snap, line, outside, disk>>

\* end of a file: the next one, or what follows the third in main
EndOfFile ==
    /\ step = "line" /\ line > Len(snap)
    /\ \/ mode = "init" /\ dev < 3 /\ dev' = dev + 1 /\ step' = "open"
       \/ mode = "init" /\ dev = 3 /\ dev' = dev /\ step' = "current"
       \/ mode = "poll" /\ dev' = (IF dev < 3 THEN dev + 1 ELSE 1) /\ step' = "open"
    /\ UNCHANGED <<mode, snap, line, outside, memory, disk, network>>

\* updateTotalValue: two calls
NotifyCurrent ==
    /\ step = "current" /\ step' = "voltage"
    /\ Notify(TotalAddress("cur"), total["cur"])
    /\ UNCHANGED <<mode, dev, snap, line, outside, memory, disk>>

\* after it, main goes on with initialize_file and the loop, or ends without a
\* connection; check_file_and_notify goes on with update_file
Proceed(s) ==
    IF mode = "poll"
    THEN mode' = mode /\ dev' = dev /\ step' = s
    ELSE \/ s = "truncate" /\ ~smExists /\ mode' = mode /\ dev' = dev /\ step' = s
         \/ /\ s = "truncate" => smExists
            /\ mode' = IF link' = "none" THEN "off" ELSE "poll"
            /\ dev' = 1 /\ step' = "open"

NotifyVoltage ==
    /\ step = "voltage" /\ Notify(TotalAddress("vol"), total["vol"])
    /\ Proceed("truncate")
    /\ UNCHANGED <<snap, line, outside, memory, disk>>

\* update_file, initialize_file: fopen("w") ... fclose
Truncate ==
    /\ step = "truncate" /\ step' = "save"
    /\ smExists' = TRUE /\ sm' = <<>>
    /\ UNCHANGED <<mode, dev, snap, line, saved, outside, memory, network>>

\* mutant: the file is written with the totals of the file before
SaveOldTotal ==
    /\ step = "save" /\ sm' = <<prev, NoTotal>> /\ saved' = TRUE
    /\ link' = link /\ Proceed("line")
    /\ line' = IF mode = "poll" THEN line + 1 ELSE line
    /\ UNCHANGED <<snap, smExists, pending, ctrl, outside, memory>>

Save ==
    /\ step = "save" /\ sm' = <<prev, total>> /\ saved' = TRUE
    /\ link' = link /\ Proceed("line")
    /\ line' = IF mode = "poll" THEN line + 1 ELSE line
    /\ UNCHANGED <<snap, smExists, pending, ctrl, outside, memory>>

Meter ==
    \/ Open \/ InitLine \/ SameLine \/ ChangedLine \/ EndOfFile
    \/ NotifyCurrent \/ NotifyVoltage \/ Truncate \/ Save

\* a connection ends: the controller still executes a prefix of what was sent
SomeArrive == \E n \in 0..Len(pending) : pending' = SubSeq(pending, 1, n)

Crash ==  \* the process ends anywhere
    /\ mode # "off" /\ restarts < MaxRestarts /\ restarts' = restarts + 1
    /\ mode' = "off" /\ step' = "open" /\ link' = "none" /\ Fresh
    /\ SomeArrive
    /\ UNCHANGED <<smExists, sm, files, changes, ctrl>>

-----------------------------------------------------------------------------
(* The controller and the connection to it.                                   *)

\* modbus_reply in the order of arrival
ControllerExecutes ==
    /\ pending # <<>>
    /\ ctrl' = [ctrl EXCEPT ![Head(pending).addr] = Head(pending).val]
    /\ pending' = Tail(pending)
    /\ UNCHANGED <<link, outside, memory, disk, place>>

ControllerRestarts ==  \* with a new mapping; the meter never reconnects
    /\ restarts < MaxRestarts /\ restarts' = restarts + 1
    /\ ctrl' = [r \in Registers |-> 0] /\ pending' = <<>>
    /\ link' = IF link = "none" THEN "none" ELSE "down"
    /\ UNCHANGED <<files, changes, memory, disk, place>>

LinkBreaks ==
    /\ link \in {"ok", "late"} /\ restarts < MaxRestarts /\ restarts' = restarts + 1
    /\ link' = "down" /\ SomeArrive
    /\ UNCHANGED <<files, changes, ctrl, memory, disk, place>>

Next ==
    \/ \E d \in Devices : FileAppears(d)
    \/ \E l \in 1..2, v \in PvVals : FileChanges(l, v)
    \/ Start \/ Meter \/ Crash
    \/ ControllerExecutes \/ ControllerRestarts \/ LinkBreaks

Spec == Init /\ [][Next]_vars

\* the meter's loop runs; the controller handles what it has received
FairSpec == Spec /\ WF_vars(Meter) /\ WF_vars(ControllerExecutes)

-----------------------------------------------------------------------------
(* Properties.                                                                *)

TypeOK ==
    /\ files \in [Devices -> Seq(Nat)] /\ smExists \in BOOLEAN /\ saved \in BOOLEAN
    /\ mode \in {"off", "init", "poll"} /\ dev \in 1..3
    /\ step \in {"open", "line", "current", "voltage", "truncate", "save"}
    /\ snap \in Seq(Nat) /\ line \in 1..3
    /\ prev \in [Devices -> [Kinds -> Int]] /\ total \in [Kinds -> Int]
    /\ link \in {"ok", "late", "down", "none"}
    /\ pending \in Seq([addr : Registers, val : 0..(Width - 1)])
    /\ ctrl \in [Registers -> 0..(Width - 1)]
    /\ changes \in Nat /\ restarts \in Nat

Balance(p, k) == p["pv"][k] - p["ev"][k] - p["hp"][k]

(* The running totals are the balance of the values last read, through the    *)
(* start, any order of changes and files that appear late: initialize_registers *)
(* and check_file_and_notify account each value exactly once.                 *)
TotalsAccount == \A k \in Kinds : total[k] = Balance(prev, k)

Shows(p, t) ==
    /\ \A d \in Devices, k \in Kinds : ctrl[Address(d, k)] \in ToRegister(p[d][k])
    /\ \A k \in Kinds : ctrl[TotalAddress(k)] \in ToRegister(t[k])

BetweenLines == mode = "poll" /\ step \in {"open", "line"}

(* As long as no call has failed, the controller holds all six values and     *)
(* both totals whenever the meter is between two changes, also after a        *)
(* restart of the meter (check_file_and_notify, updateTotalValue).            *)
ControllerInStep == BetweenLines /\ link = "ok" => Shows(prev, total)

(* Once this run of the meter has written its file, the file agrees with the  *)
(* meter between two changes (update_file).                                   *)
FileInStep == BetweenLines /\ saved => sm = <<prev, total>>

(* When the loop starts the file holds the values read from the simulators:   *)
(* sim_substation_meter.c line 233, "Initialized registers with files from    *)
(* simulators and generated one file for Substation".                         *)
FileGenerated == BetweenLines => sm = <<prev, total>>

FileValue(d, k) ==
    IF files[d] = <<>> THEN 0 ELSE files[d][IF k = "cur" THEN 1 ELSE 2]

Current == [d \in Devices |-> [k \in Kinds |-> FileValue(d, k)]]

Converged ==
    Shows(Current, [k \in Kinds |-> Balance(Current, k)])

(* If the meter stays up and connected, the controller ends up with the       *)
(* values of the device files and their balance, even when the answers come   *)
(* so late that every call of the meter reports a failure.                    *)
ControllerConverges ==
    <>[](mode = "poll" /\ link \in {"ok", "late"}) => <>[]Converged
=============================================================================
