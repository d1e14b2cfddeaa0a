------------------------ MODULE SubstationMeterProofs ------------------------
(* Theorems about SubstationMeter for every content of the files, every bound *)
(* and every interleaving with the controller and the simulators.             *)
EXTENDS SubstationMeter, SequenceTheorems, TLAPS

(* The lines of a file are the two of initialize_file, and `line' stays in    *)
(* the snapshot while one of its lines is being handled.                      *)
Reading ==
    /\ \A d \in Devices : Len(files[d]) \in {0, 2}
    /\ Len(snap) \in {0, 2}
    /\ step = "line" => line <= Len(snap) + 1
    /\ mode = "poll" /\ step \notin {"open", "line"} => line <= Len(snap)

IInv == TypeOK /\ Reading /\ TotalsAccount

LEMMA Constants ==
    /\ \A d \in Devices, k \in Kinds : Address(d, k) \in Registers
    /\ 10 \in Registers /\ 26 \in Registers
  BY DEF Registers

LEMMA ToRegisterType ==
    ASSUME NEW v \in Int, NEW r \in ToRegister(v)
    PROVE  r \in 0..(Width - 1)
  <1>1. Whole(v) \in Int
    BY DEF Whole
  <1>2. Whole(v) % Width \in 0..(Width - 1) /\ 0 \in 0..(Width - 1)
    BY <1>1, MeterAssumption
  <1>3. QED  BY <1>2 DEF ToRegister

LEMMA NotifyType ==
    ASSUME TypeOK, NEW a \in Registers, NEW v \in Int, Notify(a, v)
    PROVE  /\ link' \in {"ok", "late", "down", "none"}
           /\ pending' \in Seq([addr : Registers, val : 0..(Width - 1)])
           /\ ctrl' \in [Registers -> 0..(Width - 1)]
  <1>1. CASE link = "ok" /\ \E r \in ToRegister(v) : ctrl' = [ctrl EXCEPT ![a] = r]
             /\ UNCHANGED <<link, pending>>
    BY <1>1, ToRegisterType DEF TypeOK
  <1>2. CASE /\ link' = "late" /\ UNCHANGED ctrl
             /\ \E r \in ToRegister(v) :
                  pending' = Append(pending, [addr |-> a, val |-> r])
    BY <1>2, ToRegisterType DEF TypeOK
  <1>3. CASE UNCHANGED network
    BY <1>3 DEF TypeOK, network
  <1>4. QED
    BY <1>1, <1>2, <1>3, Zenon DEF Notify

\* a position in a file that is empty or has two lines
LEMMA TwoLines ==
    ASSUME NEW n \in {0, 2}, NEW i \in 1..3, i <= n
    PROVE  n = 2 /\ i \in 1..2 /\ i \in 1..n /\ i + 1 \in 1..3
  OBVIOUS

LEMMA Place ==
    ASSUME IInv, step = "line", line <= Len(snap)
    PROVE  /\ Device \in Devices /\ Kind \in Kinds /\ Value \in Nat
           /\ line + 1 \in 1..3 /\ Address(Device, Kind) \in Registers
  <1>1. line \in 1..2 /\ dev \in 1..3 /\ line \in 1..Len(snap) /\ snap \in Seq(Nat)
    <2>1. line \in 1..3 /\ dev \in 1..3 /\ snap \in Seq(Nat)
      BY DEF IInv, TypeOK
    <2>2. Len(snap) \in {0, 2}
      BY DEF IInv, Reading
    <2>3. line <= Len(snap)
      OBVIOUS
    <2>4. line \in 1..2 /\ line \in 1..Len(snap)
      BY <2>1, <2>2, <2>3, TwoLines, Zenon
    <2>5. QED  BY <2>1, <2>4
  <1>2. Device \in Devices
    BY <1>1 DEF Device, Order, Devices
  <1>3. Kind \in Kinds
    BY <1>1 DEF Kind, Lines, Kinds
  <1>4. Value \in Nat
    BY <1>1 DEF Value
  <1>5. QED  BY <1>1, <1>2, <1>3, <1>4, Constants

(* Taking a line keeps the totals equal to the balance.                       *)
LEMMA TakeAccounts ==
    ASSUME IInv, step = "line", line <= Len(snap), Take
    PROVE  /\ prev' \in [Devices -> [Kinds -> Int]] /\ total' \in [Kinds -> Int]
           /\ TotalsAccount'
  <1> DEFINE d == Device
             k == Kind
             v == Value
             old == prev[d][k]
  <1>1. d \in Devices /\ k \in Kinds /\ v \in Int
    BY Place
  <1>2. /\ prev \in [Devices -> [Kinds -> Int]] /\ total \in [Kinds -> Int]
        /\ old \in Int /\ total[k] \in Int
    BY <1>1 DEF IInv, TypeOK
  <1>3. /\ total' = [total EXCEPT ![k] = Account(total[k], d, old, v)]
        /\ prev' = [prev EXCEPT ![d] = [prev[d] EXCEPT ![k] = v]]
    BY DEF Take
  <1>4. Account(total[k], d, old, v) \in Int
    BY <1>1, <1>2 DEF Account
  <1>5. prev' \in [Devices -> [Kinds -> Int]] /\ total' \in [Kinds -> Int]
    BY <1>1, <1>2, <1>3, <1>4
  <1>6. ASSUME NEW j \in Kinds PROVE total'[j] = Balance(prev', j)
    <2>1. total[j] = Balance(prev, j)
      BY DEF IInv, TotalsAccount
    <2>2. /\ prev["pv"][j] \in Int /\ prev["ev"][j] \in Int /\ prev["hp"][j] \in Int
          /\ "pv" \in Devices /\ "ev" \in Devices /\ "hp" \in Devices
      BY <1>2 DEF Devices
    <2>3. CASE j # k
      <3>1. \A e \in Devices : prev'[e][j] = prev[e][j]
        BY <1>1, <1>2, <1>3, <2>3
      <3>2. total'[j] = total[j]
        BY <1>2, <1>3, <2>3
      <3>3. QED  BY <2>1, <2>2, <3>1, <3>2 DEF Balance
    <2>4. CASE j = k
      <3>1. prev'[d][j] = v /\ (\A e \in Devices : e # d => prev'[e][j] = prev[e][j])
        BY <1>1, <1>2, <1>3, <2>4
      <3>2. total'[j] = Account(total[j], d, prev[d][j], v)
        BY <1>2, <1>3, <2>4
      <3>3. CASE d = "pv"
        BY <1>1, <1>2, <2>1, <2>2, <3>1, <3>2, <3>3 DEF Balance, Account
      <3>4. CASE d = "ev"
        BY <1>1, <1>2, <2>1, <2>2, <3>1, <3>2, <3>4 DEF Balance, Account
      <3>5. CASE d = "hp"
        BY <1>1, <1>2, <2>1, <2>2, <3>1, <3>2, <3>5 DEF Balance, Account
      <3>6. QED  BY <1>1, <3>3, <3>4, <3>5 DEF Devices
    <2>5. QED  BY <2>3, <2>4
  <1>7. QED  BY <1>5, <1>6 DEF TotalsAccount

-----------------------------------------------------------------------------

LEMMA InvariantInit == Init => IInv
  <1> SUFFICES ASSUME Init PROVE IInv
    OBVIOUS
  <1> USE DEF Init
  <1>1. files \in [Devices -> Seq(Nat)] /\ \A d \in Devices : Len(files[d]) = 0
    OBVIOUS
  <1>2. snap \in Seq(Nat) /\ Len(snap) = 0
        /\ pending \in Seq([addr : Registers, val : 0..(Width - 1)])
    OBVIOUS
  <1>3. ctrl \in [Registers -> 0..(Width - 1)]
    BY MeterAssumption
  <1>4. prev \in [Devices -> [Kinds -> Int]] /\ total \in [Kinds -> Int]
    BY DEF Zero, NoTotal
  <1>5. /\ smExists \in BOOLEAN /\ saved \in BOOLEAN
        /\ mode \in {"off", "init", "poll"}
        /\ step \in {"open", "line", "current", "voltage", "truncate", "save"}
        /\ link \in {"ok", "late", "down", "none"}
    BY Zenon
  <1>6. dev \in 1..3 /\ line \in 1..3 /\ changes \in Nat /\ restarts \in Nat
    OBVIOUS
  <1>7. TypeOK
    BY <1>1, <1>2, <1>3, <1>4, <1>5, <1>6, Zenon DEF TypeOK
  <1>8. Reading
    BY <1>1, <1>2 DEF Reading
  <1>9. TotalsAccount
    BY DEF TotalsAccount, Balance, Zero, NoTotal, Devices, Kinds
  <1>10. QED  BY <1>7, <1>8, <1>9 DEF IInv

(* A step that leaves the memory of the meter alone.                          *)
LEMMA SameMemory ==
    ASSUME IInv, UNCHANGED memory
    PROVE  /\ prev' \in [Devices -> [Kinds -> Int]] /\ total' \in [Kinds -> Int]
           /\ TotalsAccount'
  BY DEF IInv, TypeOK, memory, TotalsAccount, Balance

LEMMA FreshMemory ==
    ASSUME Fresh
    PROVE  /\ prev' \in [Devices -> [Kinds -> Int]] /\ total' \in [Kinds -> Int]
           /\ snap' \in Seq(Nat) /\ Len(snap') = 0
           /\ dev' \in 1..3 /\ line' \in 1..3 /\ saved' \in BOOLEAN
           /\ TotalsAccount'
  <1>1. prev' \in [Devices -> [Kinds -> Int]] /\ total' \in [Kinds -> Int]
    BY DEF Fresh, Zero, NoTotal
  <1>2. TotalsAccount'
    BY DEF Fresh, TotalsAccount, Balance, Zero, NoTotal, Devices, Kinds
  <1>3. snap' \in Seq(Nat) /\ Len(snap') = 0 /\ dev' \in 1..3 /\ line' \in 1..3
    BY DEF Fresh
  <1>4. saved' \in BOOLEAN
    BY Zenon DEF Fresh
  <1>5. QED  BY <1>1, <1>2, <1>3, <1>4

LEMMA ChangedFile ==
    ASSUME NEW f \in Seq(Nat), Len(f) = 2, NEW l \in 1..2, NEW v \in Nat
    PROVE  [f EXCEPT ![l] = v] \in Seq(Nat) /\ Len([f EXCEPT ![l] = v]) = 2
  <1>1. l \in 1..Len(f)
    OBVIOUS
  <1>2. QED  BY <1>1, ExceptSeq

LEMMA StepFiles ==
    ASSUME IInv,
           \/ \E d \in Devices : FileAppears(d)
           \/ \E l \in 1..2, v \in PvVals : FileChanges(l, v)
    PROVE  IInv'
  <1>1. /\ files \in [Devices -> Seq(Nat)] /\ changes \in Nat
        /\ \A d \in Devices : Len(files[d]) = 0 \/ Len(files[d]) = 2
    BY DEF IInv, TypeOK, Reading
  <1>2. files' \in [Devices -> Seq(Nat)] /\ changes' \in Nat
        /\ \A d \in Devices : Len(files'[d]) = 0 \/ Len(files'[d]) = 2
    <2>1. CASE \E d \in Devices : FileAppears(d)
      <3>1. PICK d \in Devices : FileAppears(d)
        BY <2>1
      <3>2. <<InitCur, InitVol>> \in Seq(Nat) /\ Len(<<InitCur, InitVol>>) = 2
        BY MeterAssumption
      <3>3. QED  BY <1>1, <3>1, <3>2 DEF FileAppears
    <2>2. CASE \E l \in 1..2, v \in PvVals : FileChanges(l, v)
      <3>1. PICK l \in 1..2, v \in PvVals : FileChanges(l, v)
        BY <2>2
      <3>2. /\ "pv" \in Devices /\ files["pv"] \in Seq(Nat)
            /\ files["pv"] # <<>> /\ v \in Nat
            /\ Len(files["pv"]) = 0 \/ Len(files["pv"]) = 2
        BY <1>1, <3>1, MeterAssumption DEF Devices, FileChanges
      <3>3. [files["pv"] EXCEPT ![l] = v] \in Seq(Nat)
            /\ Len([files["pv"] EXCEPT ![l] = v]) = Len(files["pv"])
        <4>1. Len(files["pv"]) = 2
          BY <3>2, EmptySeq
        <4>2. QED  BY <3>1, <3>2, <4>1, ChangedFile
      <3>4. /\ files' = [files EXCEPT !["pv"] = [files["pv"] EXCEPT ![l] = v]]
            /\ changes' = changes + 1
        BY <3>1 DEF FileChanges
      <3>5. QED  BY <1>1, <3>2, <3>3, <3>4
    <2>3. QED  BY <2>1, <2>2
  <1>3. UNCHANGED <<restarts, memory, disk, place, network>>
    BY Zenon DEF FileAppears, FileChanges
  <1>4. \A d \in Devices : Len(files'[d]) \in {0, 2}
    BY <1>2
  <1>5. TypeOK' /\ Reading'
    BY <1>2, <1>3, <1>4, ZenonT(60) DEF IInv, TypeOK, Reading, memory, disk, place, network
  <1>6. QED
    BY <1>3, <1>5, SameMemory DEF IInv

\* what arrives of the writes on a connection that ends
LEMMA SomeArriveType ==
    ASSUME TypeOK, SomeArrive
    PROVE  pending' \in Seq([addr : Registers, val : 0..(Width - 1)])
  <1> DEFINE Writes == [addr : Registers, val : 0..(Width - 1)]
  <1>1. pending \in Seq(Writes)
    BY DEF TypeOK
  <1>2. PICK n \in 0..Len(pending) : pending' = SubSeq(pending, 1, n)
    BY DEF SomeArrive
  <1> HIDE DEF Writes
  <1>3. \A i \in 1..n : pending[i] \in Writes
    <2> SUFFICES ASSUME NEW i \in 1..n PROVE pending[i] \in Writes
      OBVIOUS
    <2>1. Len(pending) \in Nat
      BY <1>1, LenProperties
    <2>2. i \in 1..Len(pending)
      BY <1>2, <2>1
    <2>3. QED  BY <1>1, <2>2, ElementOfSeq, Zenon
  <1>4. SubSeq(pending, 1, n) \in Seq(Writes)
    BY <1>1, <1>3, SubSeqProperties
  <1>5. pending' \in Seq(Writes)
    BY <1>2, <1>4, Zenon
  <1>6. QED  BY <1>5 DEF Writes

LEMMA StepStartCrash ==
    ASSUME IInv, Start \/ Crash
    PROVE  IInv'
  <1>1. /\ Fresh /\ step' = "open" /\ mode' \in {"off", "init"}
        /\ link' \in {"ok", "late", "down", "none"}
        /\ UNCHANGED <<smExists, files, changes, ctrl>>
        /\ pending' = pending \/ SomeArrive
    BY Zenon DEF Start, Crash, outside
  <1>2. restarts' \in Nat
    BY DEF Start, Crash, outside, IInv, TypeOK
  <1>3. TypeOK'
    <2>1. pending' \in Seq([addr : Registers, val : 0..(Width - 1)])
      BY <1>1, SomeArriveType, Zenon DEF IInv, TypeOK
    <2>2. QED  BY <1>1, <1>2, <2>1, FreshMemory, Zenon DEF IInv, TypeOK
  <1>4. Reading'
    BY <1>1, FreshMemory DEF IInv, Reading
  <1>5. QED  BY <1>1, <1>3, <1>4, FreshMemory DEF IInv

LEMMA StepOpen ==
    ASSUME IInv, Open
    PROVE  IInv'
  <1>1. Order[dev] \in Devices
    BY DEF IInv, TypeOK, Order, Devices
  <1>2. snap' \in Seq(Nat) /\ Len(snap') \in {0, 2} /\ line' = 1
        /\ step' = "line" /\ mode' = mode /\ dev' = dev /\ files' = files
        /\ UNCHANGED <<outside, memory, disk, network>>
    BY <1>1 DEF IInv, TypeOK, Reading, Open, outside
  <1>3. line' \in 1..3 /\ line' <= Len(snap') + 1
    BY <1>2
  <1>4. TypeOK'
    BY <1>2, <1>3, Zenon DEF IInv, TypeOK, outside, memory, disk, network
  <1>5. Reading'
    BY <1>2, <1>3, Zenon DEF IInv, Reading
  <1>6. QED  BY <1>2, <1>4, <1>5, SameMemory DEF IInv

LEMMA StepLine ==
    ASSUME IInv, InitLine \/ ChangedLine
    PROVE  IInv'
  <1>1. /\ step = "line" /\ line <= Len(snap) /\ Take
        /\ Notify(Address(Device, Kind), Value)
        /\ UNCHANGED <<mode, dev, snap, outside, disk>>
        /\ \/ mode = "init" /\ line' = line + 1 /\ step' = step
           \/ mode = "poll" /\ line' = line /\ step' = "current"
    BY Zenon DEF InitLine, ChangedLine
  <1>2. /\ prev' \in [Devices -> [Kinds -> Int]] /\ total' \in [Kinds -> Int]
        /\ TotalsAccount'
    BY <1>1, TakeAccounts
  <1>3. /\ Address(Device, Kind) \in Registers /\ Value \in Int /\ line + 1 \in 1..3
    BY <1>1, Place
  <1>4. /\ link' \in {"ok", "late", "down", "none"}
        /\ pending' \in Seq([addr : Registers, val : 0..(Width - 1)])
        /\ ctrl' \in [Registers -> 0..(Width - 1)]
    BY <1>1, <1>3, NotifyType DEF IInv
  <1>5. /\ line' \in 1..3 /\ line' <= Len(snap) + 1
        /\ step' \in {"line", "current"} /\ (step' = "current" => line' <= Len(snap))
        /\ step' = "line" => mode' = "init"
    BY <1>1, <1>3 DEF IInv, TypeOK
  <1>6. TypeOK'
    BY <1>1, <1>2, <1>4, <1>5, Zenon DEF IInv, TypeOK, outside, disk
  <1>7. Reading'
    BY <1>1, <1>5, Zenon DEF IInv, Reading, outside
  <1>8. QED  BY <1>2, <1>6, <1>7 DEF IInv

LEMMA StepControl ==
    ASSUME IInv, SameLine \/ EndOfFile
    PROVE  IInv'
  <1>1. UNCHANGED <<mode, snap, outside, memory, disk, network>>
    BY Zenon DEF SameLine, EndOfFile
  <1>2. /\ dev' \in 1..3 /\ line' \in 1..3
        /\ step' \in {"open", "line", "current"}
        /\ step' = "line" => line' <= Len(snap) + 1
        /\ step' = "current" => mode = "init"
    <2>1. CASE SameLine
      BY <2>1, Place DEF IInv, TypeOK, SameLine
    <2>2. CASE EndOfFile
      BY <2>2 DEF IInv, TypeOK, EndOfFile
    <2>3. QED  BY <2>1, <2>2
  <1>3. TypeOK'
    BY <1>1, <1>2, Zenon DEF IInv, TypeOK, outside, memory, disk, network
  <1>4. Reading'
    BY <1>1, <1>2, Zenon DEF IInv, Reading, outside
  <1>5. QED  BY <1>1, <1>3, <1>4, SameMemory DEF IInv

LEMMA StepNotify ==
    ASSUME IInv, NotifyCurrent \/ NotifyVoltage
    PROVE  IInv'
  <1>1. UNCHANGED <<snap, line, outside, memory, disk>>
    BY Zenon DEF NotifyCurrent, NotifyVoltage
  <1>2. /\ link' \in {"ok", "late", "down", "none"}
        /\ pending' \in Seq([addr : Registers, val : 0..(Width - 1)])
        /\ ctrl' \in [Registers -> 0..(Width - 1)]
    <2>1. PICK k \in Kinds : Notify(TotalAddress(k), total[k])
      BY Zenon DEF NotifyCurrent, NotifyVoltage, Kinds
    <2>2. TotalAddress(k) \in Registers /\ total[k] \in Int
      BY Constants DEF TotalAddress, IInv, TypeOK
    <2>3. QED  BY <2>1, <2>2, NotifyType DEF IInv
  <1>3. /\ mode' \in {"off", "init", "poll"} /\ dev' \in 1..3
        /\ step' \in {"open", "voltage", "truncate"}
        /\ step' # "open" => mode' = mode /\ step \notin {"open", "line"}
    <2>1. CASE NotifyCurrent
      BY <2>1 DEF NotifyCurrent, IInv, TypeOK
    <2>2. CASE NotifyVoltage
      BY <2>2 DEF NotifyVoltage, Proceed, IInv, TypeOK
    <2>3. QED  BY <2>1, <2>2
  <1>4. TypeOK'
    BY <1>1, <1>2, <1>3, Zenon DEF IInv, TypeOK, outside, memory, disk
  <1>5. Reading'
    BY <1>1, <1>3, Zenon DEF IInv, Reading, outside
  <1>6. QED  BY <1>1, <1>4, <1>5, SameMemory DEF IInv

LEMMA StepDisk ==
    ASSUME IInv, Truncate \/ Save
    PROVE  IInv'
  <1>1. UNCHANGED <<snap, outside, memory, pending, ctrl, link>>
    BY Zenon DEF Truncate, Save, network
  <1>2. /\ mode' \in {"off", "init", "poll"} /\ dev' \in 1..3 /\ line' \in 1..3
        /\ step' \in {"open", "save", "line"}
        /\ step' = "line" => line' <= Len(snap) + 1
        /\ step' = "save" /\ mode' = "poll" => line' <= Len(snap)
    <2>1. CASE Truncate
      BY <2>1 DEF Truncate, IInv, TypeOK, Reading
    <2>2. CASE Save
      <3>1. mode = "poll" => line <= Len(snap) /\ line + 1 \in 1..3
        <4>1. Len(snap) \in {0, 2}
          BY DEF IInv, Reading
        <4>2. line \in 1..3 /\ (mode = "poll" => line <= Len(snap))
          BY <2>2 DEF Save, IInv, TypeOK, Reading
        <4>3. QED  BY <4>1, <4>2, TwoLines, Zenon
      <3>2. QED  BY <2>2, <3>1 DEF Save, Proceed, IInv, TypeOK
    <2>3. QED  BY <2>1, <2>2
  <1>3. smExists' \in BOOLEAN /\ saved' \in BOOLEAN
    BY Zenon DEF Truncate, Save, IInv, TypeOK
  <1>4. TypeOK'
    BY <1>1, <1>2, <1>3, Zenon DEF IInv, TypeOK, outside, memory
  <1>5. Reading'
    BY <1>1, <1>2, Zenon DEF IInv, Reading, outside
  <1>6. QED  BY <1>1, <1>4, <1>5, SameMemory DEF IInv

LEMMA StepController ==
    ASSUME IInv, ControllerExecutes \/ ControllerRestarts \/ LinkBreaks
    PROVE  IInv'
  <1> DEFINE Writes == [addr : Registers, val : 0..(Width - 1)]
  <1>1. UNCHANGED <<files, changes, memory, disk, place>>
    BY Zenon DEF ControllerExecutes, ControllerRestarts, LinkBreaks, outside
  <1>2. restarts' \in Nat
    BY DEF ControllerExecutes, ControllerRestarts, LinkBreaks, outside, IInv, TypeOK
  <1>3. link' \in {"ok", "late", "down", "none"}
    BY Zenon DEF ControllerExecutes, ControllerRestarts, LinkBreaks, IInv, TypeOK
  <1>4. pending' \in Seq(Writes) /\ ctrl' \in [Registers -> 0..(Width - 1)]
    <2>1. pending \in Seq(Writes) /\ ctrl \in [Registers -> 0..(Width - 1)]
      BY DEF IInv, TypeOK
    <2>2. CASE ControllerExecutes
      <3>1. Head(pending) \in Writes /\ Tail(pending) \in Seq(Writes)
        BY <2>1, <2>2, HeadTailProperties, Zenon DEF ControllerExecutes
      <3>2. QED  BY <2>1, <2>2, <3>1 DEF ControllerExecutes
    <2>3. CASE ControllerRestarts
      <3>1. ctrl' = [r \in Registers |-> 0] /\ pending' = <<>>
        BY <2>3 DEF ControllerRestarts
      <3>2. 0 \in 0..(Width - 1)
        BY MeterAssumption
      <3>3. QED  BY <3>1, <3>2
    <2>4. CASE LinkBreaks
      <3>1. SomeArrive /\ ctrl' = ctrl
        BY <2>4, Zenon DEF LinkBreaks
      <3>2. QED  BY <2>1, <3>1, SomeArriveType DEF IInv
    <2>5. QED  BY <2>2, <2>3, <2>4
  <1>5. TypeOK'
    BY <1>1, <1>2, <1>3, <1>4, Zenon DEF IInv, TypeOK, memory, disk, place
  <1>6. Reading'
    BY <1>1, Zenon DEF IInv, Reading, place
  <1>7. QED  BY <1>1, <1>5, <1>6, SameMemory DEF IInv

LEMMA InvariantStep == IInv /\ [Next]_vars => IInv'
  <1> SUFFICES ASSUME IInv, [Next]_vars PROVE IInv'
    OBVIOUS
  <1>1. CASE UNCHANGED vars
    <2>1. UNCHANGED <<outside, memory, disk, place, network>>
      BY <1>1 DEF vars
    <2>2. TypeOK' /\ Reading'
      BY <2>1, ZenonT(60) DEF IInv, TypeOK, Reading, outside, memory, disk, place, network
    <2>3. QED  BY <2>1, <2>2, SameMemory DEF IInv
  <1>2. QED
    BY <1>1, StepFiles, StepStartCrash, StepOpen, StepLine, StepControl,
       StepNotify, StepDisk, StepController, Zenon DEF Next, Meter

LEMMA Invariant == Spec => []IInv
  BY InvariantInit, InvariantStep, PTL DEF Spec

(* The variables keep their types (TypeOK).                                   *)
THEOREM TypeCorrect == Spec => []TypeOK
  <1>1. IInv => TypeOK
    BY DEF IInv
  <1>2. QED  BY <1>1, Invariant, PTL

(* totalCurrent and totalVoltage are at all times the balance of the values   *)
(* in prev_values: what the inverter exports less what the EV charger and the *)
(* heat pump import, whatever the files contain and whenever they appear.     *)
THEOREM TotalsAreTheBalance == Spec => []TotalsAccount
  <1>1. IInv => TotalsAccount
    BY DEF IInv
  <1>2. QED  BY <1>1, Invariant, PTL

-----------------------------------------------------------------------------
(* The file of this run of the meter: update_file follows every change of     *)
(* prev_values before the meter looks at the next line, and a run that has    *)
(* not left initialize_registers has written nothing.                         *)
FileInv ==
    /\ FileInStep
    /\ mode = "init" => ~saved
    /\ mode = "off" => step = "open"
    /\ mode \in {"off", "init", "poll"}

LEMMA FileInit == Init => FileInv
  BY Zenon DEF Init, FileInv, FileInStep, BetweenLines

LEMMA FileStep == FileInv /\ [Next]_vars => FileInv'
  <1> SUFFICES ASSUME FileInv, [Next]_vars PROVE FileInv'
    OBVIOUS
  <1> USE DEF FileInv, FileInStep, BetweenLines
  <1>1. CASE UNCHANGED <<memory, disk, place>>
    BY <1>1, Zenon DEF memory, disk, place
  <1>2. CASE Start \/ Crash
    BY <1>2, Zenon DEF Start, Crash, Fresh
  <1>3. CASE Open \/ SameLine \/ EndOfFile
    <2>1. UNCHANGED <<mode, memory, disk>> /\ step \in {"open", "line"} /\ mode # "off"
      BY <1>3, Zenon DEF Open, SameLine, EndOfFile
    <2>2. QED  BY <2>1, Zenon DEF memory, disk
  <1>4. CASE InitLine
    BY <1>4, Zenon DEF InitLine, disk
  <1>5. CASE ChangedLine
    BY <1>5, Zenon DEF ChangedLine, disk
  <1>6. CASE NotifyCurrent
    BY <1>6, Zenon DEF NotifyCurrent, disk
  <1>7. CASE NotifyVoltage
    <2>1. UNCHANGED <<memory, disk>> /\ Proceed("truncate") /\ step = "voltage"
      BY <1>7, Zenon DEF NotifyVoltage
    <2>2. CASE mode = "poll"
      <3>1. mode' = "poll" /\ step' = "truncate"
        BY <2>1, <2>2, Zenon DEF Proceed
      <3>2. QED  BY <3>1, Zenon
    <2>3. CASE mode # "poll"
      <3>1. mode = "init" /\ ~saved /\ saved' = saved
        BY <2>1, <2>3, Zenon DEF disk
      <3>2. \/ mode' = mode /\ step' = "truncate"
            \/ mode' \in {"off", "poll"} /\ step' = "open"
        BY <2>1, <2>3, Zenon DEF Proceed
      <3>3. QED  BY <3>1, <3>2, Zenon
    <2>4. QED  BY <2>2, <2>3
  <1>8. CASE Truncate
    BY <1>8, Zenon DEF Truncate
  <1>9. CASE Save
    <2>1. sm' = <<prev', total'>> /\ Proceed("line")
      BY <1>9, Zenon DEF Save, memory
    <2>2. mode' \in {"off", "poll"} /\ (mode' = "off" => step' = "open")
      BY <1>9, <2>1, Zenon DEF Proceed, Save
    <2>3. QED  BY <2>1, <2>2, Zenon
  <1>10. CASE \/ \E d \in Devices : FileAppears(d)
              \/ \E l \in 1..2, v \in PvVals : FileChanges(l, v)
              \/ ControllerExecutes \/ ControllerRestarts \/ LinkBreaks
              \/ UNCHANGED vars
    BY <1>1, <1>10, Zenon
       DEF FileAppears, FileChanges, ControllerExecutes, ControllerRestarts,
           LinkBreaks, vars
  <1>11. QED
    BY <1>2, <1>3, <1>4, <1>5, <1>6, <1>7, <1>8, <1>9, <1>10, Zenon DEF Next, Meter

(* Once this run of the meter has written its file, the file agrees with its  *)
(* memory whenever it is between two changes (FileInStep).                    *)
THEOREM FileAgrees == Spec => []FileInStep
  <1>1. FileInv => FileInStep
    BY DEF FileInv
  <1>2. QED  BY <1>1, FileInit, FileStep, PTL DEF Spec

-----------------------------------------------------------------------------
(* What the controller holds.  A register follows a value when it holds it    *)
(* and no write to it is on its way.                                          *)
Addr(i, l) == Address(Order[i], Lines[l])

Follows(regs, queue, a, v) ==
    regs[a] \in ToRegister(v) /\ \A n \in 1..Len(queue) : queue[n].addr # a

(* Lines of the files the meter has not come to since it started.             *)
Unread(i, l) ==
    \/ i > dev
    \/ i = dev /\ step = "open"
    \/ i = dev /\ step = "line" /\ line <= Len(snap) /\ l >= line

Waits(i, l) == mode = "init" /\ Unread(i, l) /\ prev[Order[i]][Lines[l]] = 0

Shown(i, l) == Follows(ctrl, pending, Addr(i, l), prev[Order[i]][Lines[l]])

CurrentSent ==
    \/ mode = "poll" /\ step # "current"
    \/ mode = "init" /\ step \in {"voltage", "truncate", "save"}

VoltageSent ==
    \/ mode = "poll" /\ step \notin {"current", "voltage"}
    \/ mode = "init" /\ step \in {"truncate", "save"}

(* Nobody has ever written the registers of a device without a file.          *)
Untouched ==
    \A i \in 1..3, l \in 1..2 :
        files[Order[i]] = <<>> => Follows(ctrl, pending, Addr(i, l), 0)

Stages ==
    /\ mode = "off" => step = "open"
    /\ mode = "init" /\ step \notin {"open", "line"} => dev = 3
    /\ mode \in {"off", "init", "poll"}

Opened == step # "open" /\ snap # <<>> => files[Order[dev]] # <<>>

ValuesShown ==
    link = "ok" /\ mode # "off" =>
        \A i \in 1..3, l \in 1..2 : Waits(i, l) \/ Shown(i, l)

TotalsShown ==
    link = "ok" =>
        /\ CurrentSent => Follows(ctrl, pending, 10, total["cur"])
        /\ VoltageSent => Follows(ctrl, pending, 26, total["vol"])

FollowInv == Untouched /\ Stages /\ Opened /\ ValuesShown /\ TotalsShown

(* No two lines share a register, with each other or with a total.            *)
LEMMA Addresses ==
    ASSUME NEW i \in 1..3, NEW l \in 1..2
    PROVE  /\ Order[i] \in Devices /\ Lines[l] \in Kinds
           /\ Addr(i, l) \in Registers /\ Addr(i, l) # 10 /\ Addr(i, l) # 26
           /\ \A j \in 1..3, m \in 1..2 :
                (i = j /\ l = m) \/ (Addr(i, l) # Addr(j, m)
                                     /\ (Order[i] # Order[j] \/ Lines[l] # Lines[m]))
  <1>1. /\ Order[1] = "pv" /\ Order[2] = "ev" /\ Order[3] = "hp"
        /\ Lines[1] = "cur" /\ Lines[2] = "vol"
    BY DEF Order, Lines
  <1>2. /\ Addr(1, 1) = 2 /\ Addr(2, 1) = 4 /\ Addr(3, 1) = 0
        /\ Addr(1, 2) = 22 /\ Addr(2, 2) = 24 /\ Addr(3, 2) = 20
    BY <1>1 DEF Addr, Address
  <1>3. Order[i] \in Devices /\ Lines[l] \in Kinds
    BY <1>1 DEF Devices, Kinds
  <1>4. Addr(i, l) \in Registers
    BY <1>3, Constants DEF Addr
  <1>5. Addr(i, l) # 10 /\ Addr(i, l) # 26
    BY <1>2
  <1>6. ASSUME NEW j \in 1..3, NEW m \in 1..2, ~(i = j /\ l = m)
        PROVE  Addr(i, l) # Addr(j, m)
    BY <1>2, <1>6
  <1>7. ASSUME NEW j \in 1..3, NEW m \in 1..2, Order[i] = Order[j], Lines[l] = Lines[m]
        PROVE  i = j /\ l = m
    BY <1>1, <1>7
  <1>8. QED  BY <1>3, <1>4, <1>5, <1>6, <1>7

(* A notification that succeeds: everything before it has arrived.            *)
LEMMA NotifyShows ==
    ASSUME TypeOK, NEW a \in Registers, NEW v, Notify(a, v), link' = "ok"
    PROVE  link = "ok" /\ Follows(ctrl', pending', a, v)
  <1>1. /\ link = "ok" /\ pending = <<>> /\ UNCHANGED <<link, pending>>
        /\ \E r \in ToRegister(v) : ctrl' = [ctrl EXCEPT ![a] = r]
    BY DEF Notify, network
  <1>2. PICK r \in ToRegister(v) : ctrl' = [ctrl EXCEPT ![a] = r]
    BY <1>1
  <1>3. ctrl'[a] = r
    BY <1>2 DEF TypeOK
  <1>4. Len(pending') = 0
    BY <1>1
  <1>5. QED  BY <1>1, <1>3, <1>4 DEF Follows

(* Whatever becomes of a notification, the other registers are left alone.    *)
LEMMA NotifyOthers ==
    ASSUME TypeOK, NEW a \in Registers, NEW v \in Int, Notify(a, v),
           NEW b \in Registers, b # a, NEW w, Follows(ctrl, pending, b, w)
    PROVE  Follows(ctrl', pending', b, w)
  <1> DEFINE Writes == [addr : Registers, val : 0..(Width - 1)]
  <1>1. ctrl \in [Registers -> 0..(Width - 1)] /\ pending \in Seq(Writes)
    BY DEF TypeOK
  <1>2. CASE UNCHANGED pending /\ \E r \in ToRegister(v) : ctrl' = [ctrl EXCEPT ![a] = r]
    BY <1>1, <1>2 DEF Follows
  <1>3. CASE UNCHANGED ctrl /\ \E r \in ToRegister(v) :
                 pending' = Append(pending, [addr |-> a, val |-> r])
    <2>1. PICK r \in ToRegister(v) : pending' = Append(pending, [addr |-> a, val |-> r])
      BY <1>3
    <2>2. [addr |-> a, val |-> r] \in Writes
      BY ToRegisterType
    <2> HIDE DEF Writes
    <2>3. /\ Len(pending') = Len(pending) + 1 /\ Len(pending) \in Nat
          /\ \A n \in 1..Len(pending) : pending'[n] = pending[n]
          /\ pending'[Len(pending) + 1] = [addr |-> a, val |-> r]
      BY <1>1, <2>1, <2>2
    <2>4. ASSUME NEW n \in 1..Len(pending') PROVE pending'[n].addr # b
      <3>1. CASE n \in 1..Len(pending)
        BY <2>3, <3>1 DEF Follows
      <3>2. CASE n = Len(pending) + 1
        BY <2>3, <3>2
      <3>3. QED  BY <2>3, <3>1, <3>2
    <2>5. QED  BY <1>3, <2>4 DEF Follows
  <1>4. CASE UNCHANGED network
    BY <1>4 DEF Follows, network
  <1>5. QED  BY <1>2, <1>3, <1>4, Zenon DEF Notify

(* The controller executes a write to another register.                       *)
LEMMA ExecuteOthers ==
    ASSUME TypeOK, ControllerExecutes, NEW b \in Registers, NEW w,
           Follows(ctrl, pending, b, w)
    PROVE  Follows(ctrl', pending', b, w)
  <1>1. /\ ctrl \in [Registers -> 0..(Width - 1)]
        /\ pending \in Seq([addr : Registers, val : 0..(Width - 1)]) /\ pending # <<>>
        /\ ctrl' = [ctrl EXCEPT ![Head(pending).addr] = Head(pending).val]
        /\ pending' = Tail(pending)
    BY DEF TypeOK, ControllerExecutes
  <1>2. Len(pending) \in Nat /\ Len(pending) >= 1 /\ Head(pending) = pending[1]
    BY <1>1
  <1>3. Head(pending).addr # b
    BY <1>2 DEF Follows
  <1>4. /\ Len(pending') = Len(pending) - 1
        /\ \A n \in 1..Len(pending') : pending'[n] = pending[n + 1]
    BY <1>1
  <1>5. ASSUME NEW n \in 1..Len(pending') PROVE pending'[n].addr # b
    <2>1. n + 1 \in 1..Len(pending)
      BY <1>2, <1>4
    <2>2. QED  BY <1>4, <2>1 DEF Follows
  <1>6. ctrl'[b] = ctrl[b]
    BY <1>1, <1>3
  <1>7. QED  BY <1>5, <1>6 DEF Follows

(* When a connection ends, no write is added to those on their way.           *)
LEMMA ArriveOthers ==
    ASSUME TypeOK, SomeArrive, UNCHANGED ctrl, NEW b, NEW w,
           Follows(ctrl, pending, b, w)
    PROVE  Follows(ctrl', pending', b, w)
  <1>1. PICK k \in 0..Len(pending) : pending' = SubSeq(pending, 1, k)
    BY DEF SomeArrive
  <1>2. pending \in Seq([addr : Registers, val : 0..(Width - 1)])
    BY DEF TypeOK
  <1>3. Len(pending') = k /\ \A n \in 1..k : pending'[n] = pending[n]
    BY <1>1, <1>2
  <1>4. Len(pending) \in Nat
    BY <1>2
  <1>5. ASSUME NEW n \in 1..Len(pending') PROVE pending'[n].addr # b
    <2>1. n \in 1..Len(pending)
      BY <1>3, <1>4
    <2>2. QED  BY <1>3, <2>1 DEF Follows
  <1>6. QED  BY <1>5 DEF Follows

(* A new controller holds zeros and has nothing to execute.                   *)
LEMMA NewFollows ==
    ASSUME NEW b \in Registers
    PROVE  Follows([r \in Registers |-> 0], <<>>, b, 0)
  <1>1. Whole(0) = 0 /\ 0 % Width = 0
    BY MeterAssumption DEF Whole
  <1>2. QED  BY <1>1 DEF Follows, ToRegister

(* What a line does: it is taken, and sent.                                   *)
Line ==
    /\ step = "line" /\ line <= Len(snap) /\ mode # "off"
    /\ Take /\ Notify(Address(Device, Kind), Value)
    /\ UNCHANGED <<mode, dev, snap, files>>
    /\ \/ mode = "init" /\ step' = "line" /\ line' = line + 1
       \/ mode = "poll" /\ step' = "current" /\ line' = line

LEMMA LineSteps == ASSUME InitLine \/ ChangedLine PROVE Line
  BY DEF InitLine, ChangedLine, Line, outside

LEMMA LinePlace ==
    ASSUME IInv, Line
    PROVE  /\ dev \in 1..3 /\ line \in 1..2 /\ Len(snap) = 2 /\ Value \in Int
           /\ Address(Device, Kind) = Addr(dev, line)
           /\ Device = Order[dev] /\ Kind = Lines[line]
  <1>1. line \in 1..3 /\ dev \in 1..3 /\ Len(snap) \in {0, 2} /\ line <= Len(snap)
    BY DEF IInv, TypeOK, Reading, Line
  <1>2. Value \in Int
    BY Place DEF Line
  <1>3. QED  BY <1>1, <1>2, TwoLines DEF Device, Kind, Addr

(* A step touches a register that it writes, or all when the controller       *)
(* starts anew.                                                               *)
LEMMA Touches ==
    ASSUME IInv, [Next]_vars, NEW b \in Registers, NEW w,
           Follows(ctrl, pending, b, w)
    PROVE  \/ Follows(ctrl', pending', b, w)
           \/ link' # "ok" /\ ctrl' = [r \in Registers |-> 0] /\ pending' = <<>>
                           /\ UNCHANGED files
           \/ Line /\ b = Addr(dev, line)
           \/ NotifyCurrent /\ b = 10
           \/ NotifyVoltage /\ b = 26
  <1>1. TypeOK /\ total["cur"] \in Int /\ total["vol"] \in Int
        /\ 10 \in Registers /\ 26 \in Registers
    BY Constants DEF IInv, TypeOK, Kinds
  <1>2. CASE ctrl' = ctrl /\ pending' = pending
    BY <1>2
  <1>3. CASE Line
    <2>1. /\ Notify(Addr(dev, line), Value) /\ Value \in Int
          /\ Addr(dev, line) \in Registers
      BY <1>3, LinePlace, Addresses DEF Line
    <2>2. QED  BY <1>1, <1>3, <2>1, NotifyOthers
  <1>4. CASE NotifyCurrent
    <2>1. Notify(10, total["cur"])
      BY <1>4 DEF NotifyCurrent, TotalAddress
    <2>2. QED  BY <1>1, <1>4, <2>1, NotifyOthers
  <1>5. CASE NotifyVoltage
    <2>1. Notify(26, total["vol"])
      BY <1>5 DEF NotifyVoltage, TotalAddress
    <2>2. QED  BY <1>1, <1>5, <2>1, NotifyOthers
  <1>6. CASE ControllerExecutes
    BY <1>1, <1>6, ExecuteOthers
  <1>7. CASE ControllerRestarts
    BY <1>7, Zenon DEF ControllerRestarts
  <1>8. CASE Crash \/ LinkBreaks
    <2>1. SomeArrive /\ UNCHANGED ctrl
      BY <1>8, Zenon DEF Crash, LinkBreaks
    <2>2. QED  BY <1>1, <2>1, ArriveOthers
  <1>9. CASE \/ \E d \in Devices : FileAppears(d)
             \/ \E l \in 1..2, v \in PvVals : FileChanges(l, v)
             \/ Start \/ Open \/ SameLine \/ EndOfFile \/ Truncate \/ Save
             \/ UNCHANGED vars
    <2>1. ctrl' = ctrl /\ pending' = pending
      BY <1>9, Zenon DEF FileAppears, FileChanges, Start, Open, SameLine,
         EndOfFile, Truncate, Save, vars, network
    <2>2. QED  BY <1>2, <2>1
  <1>10. QED
    BY <1>3, <1>4, <1>5, <1>6, <1>7, <1>8, <1>9, LineSteps, Zenon DEF Next, Meter

(* Files do not go away.                                                      *)
LEMMA FilesStay ==
    ASSUME IInv, [Next]_vars, NEW d \in Devices, files[d] # <<>>
    PROVE  files'[d] # <<>>
  <1>1. files \in [Devices -> Seq(Nat)] /\ \A e \in Devices : Len(files[e]) \in {0, 2}
    BY DEF IInv, TypeOK, Reading
  <1>2. CASE \E e \in Devices : FileAppears(e)
    BY <1>1, <1>2 DEF FileAppears
  <1>3. CASE \E l \in 1..2, v \in PvVals : FileChanges(l, v)
    <2>1. PICK l \in 1..2, v \in PvVals : FileChanges(l, v)
      BY <1>3
    <2>2. /\ files' = [files EXCEPT !["pv"] = [files["pv"] EXCEPT ![l] = v]]
          /\ files["pv"] # <<>> /\ v \in Nat /\ "pv" \in Devices
      BY <2>1, MeterAssumption DEF FileChanges, Devices
    <2>3. files["pv"] \in Seq(Nat) /\ Len(files["pv"]) = 2
      BY <1>1, <2>2, EmptySeq
    <2>4. Len([files["pv"] EXCEPT ![l] = v]) = 2
      BY <2>2, <2>3, ChangedFile
    <2>5. [files["pv"] EXCEPT ![l] = v] # <<>>
      BY <2>4
    <2>6. QED  BY <1>1, <2>2, <2>5
  <1>4. CASE files' = files
    BY <1>4
  <1>5. QED
    BY <1>2, <1>3, <1>4, Zenon DEF Next, Meter, Start, Open, InitLine, SameLine,
       ChangedLine, EndOfFile, NotifyCurrent, NotifyVoltage, Truncate, Save, Crash,
       ControllerExecutes, ControllerRestarts, LinkBreaks, vars, outside

LEMMA UntouchedStep == ASSUME IInv, FollowInv, [Next]_vars PROVE Untouched'
  <1> SUFFICES ASSUME NEW i \in 1..3, NEW l \in 1..2, files'[Order[i]] = <<>>
               PROVE  Follows(ctrl', pending', Addr(i, l), 0)
    BY DEF Untouched
  <1>1. /\ Order[i] \in Devices /\ Addr(i, l) \in Registers
        /\ Addr(i, l) # 10 /\ Addr(i, l) # 26
    BY Addresses
  <1>2. files[Order[i]] = <<>>
    BY <1>1, FilesStay
  <1>3. Follows(ctrl, pending, Addr(i, l), 0)
    BY <1>2 DEF FollowInv, Untouched
  <1>4. ~(Line /\ Addr(i, l) = Addr(dev, line))
    <2> SUFFICES ASSUME Line, Addr(i, l) = Addr(dev, line) PROVE FALSE
      OBVIOUS
    <2>1. dev \in 1..3 /\ line \in 1..2 /\ Len(snap) = 2
      BY LinePlace
    <2>2. i = dev
      BY <2>1, Addresses
    <2>3. snap # <<>> /\ step # "open"
      BY <2>1 DEF Line
    <2>4. QED  BY <1>2, <2>2, <2>3 DEF FollowInv, Opened
  <1>5. CASE ctrl' = [r \in Registers |-> 0] /\ pending' = <<>>
    BY <1>1, <1>5, NewFollows
  <1>6. QED  BY <1>1, <1>3, <1>4, <1>5, Touches

(* Proceed either stays in the loop or ends initialize_registers.             *)
LEMMA Proceeds ==
    ASSUME Stages, mode # "off", NEW s, s \in {"truncate", "line"}, Proceed(s)
    PROVE  \/ mode' = mode /\ dev' = dev /\ step' = s /\ (mode = "init" => s = "truncate")
           \/ mode = "init" /\ mode' \in {"off", "poll"} /\ step' = "open" /\ dev' = 1
  <1>1. mode = "poll" \/ mode = "init"
    BY DEF Stages
  <1>2. CASE mode = "poll"
    BY <1>2, Zenon DEF Proceed
  <1>3. CASE mode = "init"
    BY <1>3, Zenon DEF Proceed
  <1>4. QED  BY <1>1, <1>2, <1>3

LEMMA StagesStep == ASSUME FollowInv, [Next]_vars PROVE Stages'
  <1> USE DEF FollowInv, Stages
  <1>1. CASE Start \/ Crash
    BY <1>1, Zenon DEF Start, Crash
  <1>2. CASE UNCHANGED place
    BY <1>2, Zenon DEF place
  <1>3. CASE Open \/ SameLine
    BY <1>3, Zenon DEF Open, SameLine
  <1>4. CASE EndOfFile
    <2>1. mode' = mode /\ step = "line" /\ mode # "off"
      BY <1>4, Zenon DEF EndOfFile
    <2>2. step' = "open" \/ (step' = "current" /\ dev' = 3) \/ (mode = "poll" /\ step' = "open")
      BY <1>4, Zenon DEF EndOfFile
    <2>3. QED  BY <2>1, <2>2, Zenon
  <1>5. CASE InitLine \/ ChangedLine
    BY <1>5, LineSteps, Zenon DEF Line
  <1>6. CASE NotifyCurrent
    BY <1>6, Zenon DEF NotifyCurrent
  <1>7. CASE Truncate
    BY <1>7, Zenon DEF Truncate
  <1>8. CASE NotifyVoltage
    BY <1>8, Proceeds, Zenon DEF NotifyVoltage
  <1>9. CASE Save
    BY <1>9, Proceeds, Zenon DEF Save
  <1>10. CASE \/ \E d \in Devices : FileAppears(d)
              \/ \E l \in 1..2, v \in PvVals : FileChanges(l, v)
              \/ ControllerExecutes \/ ControllerRestarts \/ LinkBreaks
              \/ UNCHANGED vars
    BY <1>2, <1>10, Zenon
       DEF FileAppears, FileChanges, ControllerExecutes, ControllerRestarts,
           LinkBreaks, vars
  <1>11. QED
    BY <1>1, <1>3, <1>4, <1>5, <1>6, <1>7, <1>8, <1>9, <1>10, Zenon DEF Next, Meter

LEMMA OpenedStep == ASSUME IInv, FollowInv, [Next]_vars PROVE Opened'
  <1> SUFFICES ASSUME step' # "open", snap' # <<>> PROVE files'[Order[dev']] # <<>>
    BY DEF Opened
  <1>1. dev \in 1..3 /\ Order[dev] \in Devices
    <2>1. dev \in 1..3
      BY DEF IInv, TypeOK
    <2>2. QED  BY <2>1, Addresses
  <1>2. CASE Open
    BY <1>2, Zenon DEF Open, outside
  <1>3. ASSUME dev' = dev, snap' = snap, step # "open" PROVE files'[Order[dev']] # <<>>
    BY <1>1, <1>3, FilesStay DEF FollowInv, Opened
  <1>4. CASE Start \/ Crash
    BY <1>4, Zenon DEF Start, Crash
  <1>5. CASE UNCHANGED place
    BY <1>3, <1>5, Zenon DEF place
  <1>6. CASE SameLine \/ InitLine \/ ChangedLine \/ NotifyCurrent \/ Truncate
    BY <1>3, <1>6, Zenon
       DEF SameLine, InitLine, ChangedLine, NotifyCurrent, Truncate
  <1>7. CASE EndOfFile
    BY <1>3, <1>7, Zenon DEF EndOfFile
  <1>8. CASE NotifyVoltage \/ Save
    <2>1. snap' = snap /\ step # "open" /\ (Proceed("truncate") \/ Proceed("line"))
      BY <1>8, Zenon DEF NotifyVoltage, Save
    <2>2. Stages /\ mode # "off" /\ step' # "open"
      BY <2>1, Zenon DEF FollowInv, Stages
    <2>3. CASE Proceed("truncate")
      <3>1. dev' = dev
        BY <2>2, <2>3, Proceeds
      <3>2. QED  BY <1>3, <2>1, <3>1
    <2>4. CASE Proceed("line")
      <3>1. dev' = dev
        BY <2>2, <2>4, Proceeds
      <3>2. QED  BY <1>3, <2>1, <3>1
    <2>5. QED  BY <2>1, <2>3, <2>4
  <1>9. CASE \/ \E d \in Devices : FileAppears(d)
             \/ \E l \in 1..2, v \in PvVals : FileChanges(l, v)
             \/ ControllerExecutes \/ ControllerRestarts \/ LinkBreaks
             \/ UNCHANGED vars
    BY <1>5, <1>9, Zenon
       DEF FileAppears, FileChanges, ControllerExecutes, ControllerRestarts,
           LinkBreaks, vars
  <1>10. QED
    BY <1>2, <1>4, <1>6, <1>7, <1>8, <1>9, Zenon DEF Next, Meter

(* A link is not mended, and the meter starts with Start only.                *)
LEMMA StillConnected ==
    ASSUME FollowInv, [Next]_vars, ~Start, link' = "ok"
    PROVE  link = "ok" /\ (mode' # "off" => mode # "off")
  <1>1. CASE InitLine \/ ChangedLine
    <2>1. \E a, v : Notify(a, v)
      BY <1>1, LineSteps, Zenon DEF Line
    <2>2. mode # "off"
      BY <1>1, LineSteps, Zenon DEF Line
    <2>3. QED  BY <2>1, <2>2, Zenon DEF Notify, network
  <1>2. CASE NotifyCurrent \/ NotifyVoltage
    <2>1. (\E a, v : Notify(a, v)) /\ step # "open"
      BY <1>2, Zenon DEF NotifyCurrent, NotifyVoltage
    <2>2. mode # "off"
      BY <2>1 DEF FollowInv, Stages
    <2>3. QED  BY <2>1, <2>2, Zenon DEF Notify, network
  <1>3. CASE Open \/ SameLine \/ EndOfFile
    BY <1>3, Zenon DEF Open, SameLine, EndOfFile, network
  <1>4. CASE Truncate \/ Save
    <2>1. link' = link /\ step # "open"
      BY <1>4, Zenon DEF Truncate, Save, network
    <2>2. QED  BY <2>1 DEF FollowInv, Stages
  <1>5. CASE Crash
    BY <1>5, Zenon DEF Crash
  <1>6. CASE ControllerRestarts \/ LinkBreaks
    <2>1. link' # "ok"
      BY <1>6, Zenon DEF ControllerRestarts, LinkBreaks
    <2>2. QED  BY <2>1
  <1>7. CASE \/ \E d \in Devices : FileAppears(d)
             \/ \E l \in 1..2, v \in PvVals : FileChanges(l, v)
             \/ ControllerExecutes \/ UNCHANGED vars
    BY <1>7, Zenon DEF FileAppears, FileChanges, ControllerExecutes, vars, network, place
  <1>8. QED
    BY <1>1, <1>2, <1>3, <1>4, <1>5, <1>6, <1>7, Zenon DEF Next, Meter

(* A line that succeeds shows its value.                                      *)
LEMMA LineShows ==
    ASSUME IInv, Line, link' = "ok"
    PROVE  Follows(ctrl', pending', Addr(dev, line), prev'[Order[dev]][Lines[line]])
  <1>1. /\ TypeOK /\ Notify(Addr(dev, line), Value)
        /\ dev \in 1..3 /\ line \in 1..2 /\ Device = Order[dev] /\ Kind = Lines[line]
    BY LinePlace DEF IInv, Line
  <1>2. /\ Addr(dev, line) \in Registers /\ Order[dev] \in Devices
        /\ Lines[line] \in Kinds
    BY <1>1, Addresses
  <1>3. Follows(ctrl', pending', Addr(dev, line), Value)
    BY <1>1, <1>2, NotifyShows
  <1>4. prev'[Order[dev]][Lines[line]] = Value
    BY <1>1, <1>2 DEF Line, Take, TypeOK
  <1>5. QED  BY <1>3, <1>4

(* It leaves the other values as they are.                                    *)
LEMMA LineOthers ==
    ASSUME IInv, Line, NEW i \in 1..3, NEW l \in 1..2, ~(i = dev /\ l = line)
    PROVE  /\ Addr(i, l) # Addr(dev, line)
           /\ prev'[Order[i]][Lines[l]] = prev[Order[i]][Lines[l]]
  <1>1. dev \in 1..3 /\ line \in 1..2 /\ Device = Order[dev] /\ Kind = Lines[line]
    BY LinePlace
  <1>2. /\ Addr(i, l) # Addr(dev, line)
        /\ Order[i] # Order[dev] \/ Lines[l] # Lines[line]
        /\ Order[i] \in Devices /\ Order[dev] \in Devices
        /\ Lines[l] \in Kinds /\ Lines[line] \in Kinds
    BY <1>1, Addresses
  <1>3. /\ prev \in [Devices -> [Kinds -> Int]]
        /\ prev' = [prev EXCEPT ![Order[dev]][Lines[line]] = Value]
    BY <1>1 DEF Line, Take, IInv, TypeOK
  <1>4. QED  BY <1>2, <1>3

(* Only lines and a start change prev_values.                                 *)
LEMMA PrevStays ==
    ASSUME [Next]_vars, ~Start, ~Line, mode' # "off"
    PROVE  prev' = prev
  <1>1. ~InitLine /\ ~ChangedLine
    BY LineSteps
  <1>2. ~Crash
    BY Zenon DEF Crash
  <1>3. QED
    BY <1>1, <1>2, Zenon
       DEF Next, Meter, FileAppears, FileChanges, Open, SameLine, EndOfFile,
           NotifyCurrent, NotifyVoltage, Truncate, Save, ControllerExecutes,
           ControllerRestarts, LinkBreaks, vars, memory

(* While lines are unread nothing but reading moves the meter.                *)
LEMMA WaitsStays ==
    ASSUME IInv, FollowInv, [Next]_vars, ~Start, ~Open, ~Line, ~EndOfFile,
           mode' # "off", NEW i \in 1..3, NEW l, Waits(i, l)
    PROVE  UNCHANGED place
  <1>1. ~InitLine /\ ~ChangedLine
    BY LineSteps
  <1>2. ~Crash /\ ~SameLine
    BY Zenon DEF Crash, SameLine, Waits
  <1>3. step \in {"open", "line"}
    <2> SUFFICES ASSUME step \notin {"open", "line"} PROVE FALSE
      OBVIOUS
    <2>1. dev = 3 /\ i > dev
      BY DEF Waits, Unread, FollowInv, Stages
    <2>2. QED  BY <2>1
  <1>4. ~NotifyCurrent /\ ~NotifyVoltage /\ ~Truncate /\ ~Save
    BY <1>3 DEF NotifyCurrent, NotifyVoltage, Truncate, Save
  <1>5. QED
    BY <1>1, <1>2, <1>4, Zenon
       DEF Next, Meter, FileAppears, FileChanges, ControllerExecutes,
           ControllerRestarts, LinkBreaks, vars

(* The values: what a step makes of a line of a file.                         *)
LEMMA ValuesStep == ASSUME IInv, FollowInv, [Next]_vars PROVE ValuesShown'
  <1> SUFFICES ASSUME link' = "ok", mode' # "off", NEW i \in 1..3, NEW l \in 1..2
               PROVE  \/ Waits(i, l)'
                      \/ Follows(ctrl', pending', Addr(i, l), prev'[Order[i]][Lines[l]])
    BY DEF ValuesShown, Shown
  <1>1. /\ Order[i] \in Devices /\ Lines[l] \in Kinds /\ Addr(i, l) \in Registers
        /\ Addr(i, l) # 10 /\ Addr(i, l) # 26
    BY Addresses
  <1>2. dev \in 1..3 /\ line \in 1..3
    BY DEF IInv, TypeOK
  <1>3. CASE Start
    <2>1. /\ mode' = "init" /\ dev' = 1 /\ step' = "open"
          /\ prev' = [d \in Devices |-> [k \in Kinds |-> 0]]
      BY <1>3 DEF Start, Fresh, Zero
    <2>2. prev'[Order[i]][Lines[l]] = 0
      BY <1>1, <2>1
    <2>3. Unread(i, l)'
      BY <2>1 DEF Unread
    <2>4. QED  BY <2>1, <2>2, <2>3 DEF Waits
  <1>4. ASSUME ~Start, ~(Line /\ i = dev /\ l = line),
               Follows(ctrl, pending, Addr(i, l), prev[Order[i]][Lines[l]])
        PROVE  Follows(ctrl', pending', Addr(i, l), prev'[Order[i]][Lines[l]])
    <2>1. CASE Line
      <3>1. /\ Addr(i, l) # Addr(dev, line)
            /\ prev'[Order[i]][Lines[l]] = prev[Order[i]][Lines[l]]
        BY <1>4, <2>1, LineOthers
      <3>2. QED  BY <1>1, <1>4, <3>1, Touches
    <2>2. CASE ~Line
      <3>1. prev' = prev
        BY <1>4, <2>2, PrevStays
      <3>2. QED  BY <1>1, <1>4, <2>2, <3>1, Touches
    <2>3. QED  BY <2>1, <2>2
  <1>5. ASSUME ~Start
        PROVE  \/ Waits(i, l)
               \/ Follows(ctrl, pending, Addr(i, l), prev[Order[i]][Lines[l]])
    BY <1>5, StillConnected DEF FollowInv, ValuesShown, Shown
  <1>6. CASE Line
    <2>1. CASE i = dev /\ l = line
      BY <1>6, <2>1, LineShows
    <2>2. ASSUME ~(i = dev /\ l = line), Waits(i, l)
          PROVE  Waits(i, l)'
      <3>1. /\ mode = "init" /\ mode' = "init" /\ step = "line" /\ step' = "line"
            /\ line' = line + 1 /\ dev' = dev /\ snap' = snap /\ Len(snap) = 2
        BY <1>6, <2>2, LinePlace DEF Waits, Line
      <3>2. Unread(i, l)'
        BY <1>2, <2>2, <3>1 DEF Waits, Unread
      <3>3. prev'[Order[i]][Lines[l]] = 0
        BY <1>6, <2>2, LineOthers DEF Waits
      <3>4. QED  BY <3>1, <3>2, <3>3 DEF Waits
    <2>3. ~Start
      BY <1>6 DEF Start, Line
    <2>4. QED  BY <1>4, <1>5, <2>1, <2>2, <2>3
  <1>7. CASE Open
    <2>1. /\ ~Start /\ ~Line /\ step = "open" /\ step' = "line" /\ line' = 1
          /\ dev' = dev /\ mode' = mode /\ snap' = files[Order[dev]] /\ prev' = prev
      BY <1>7 DEF Open, Start, Line, memory
    <2>2. CASE Waits(i, l) /\ i = dev /\ files[Order[dev]] = <<>>
      <3>1. Follows(ctrl, pending, Addr(i, l), 0)
        BY <2>2 DEF FollowInv, Untouched
      <3>2. QED  BY <1>4, <2>1, <2>2, <3>1 DEF Waits
    <2>3. CASE Waits(i, l) /\ i = dev /\ files[Order[dev]] # <<>>
      <3>1. Len(snap') = 2
        <4>1. files[Order[dev]] \in Seq(Nat) /\ Len(files[Order[dev]]) \in {0, 2}
          BY <1>1, <2>3 DEF IInv, TypeOK, Reading
        <4>2. QED  BY <2>1, <2>3, <4>1, EmptySeq
      <3>2. Unread(i, l)'
        BY <2>1, <2>3, <3>1 DEF Unread
      <3>3. QED  BY <2>1, <2>3, <3>2 DEF Waits
    <2>4. CASE Waits(i, l) /\ i # dev
      <3>1. Unread(i, l)'
        BY <2>1, <2>4 DEF Waits, Unread
      <3>2. QED  BY <2>1, <2>4, <3>1 DEF Waits
    <2>5. QED  BY <1>4, <1>5, <2>1, <2>2, <2>3, <2>4
  <1>8. CASE EndOfFile
    <2>1. ~Start /\ ~Line /\ prev' = prev /\ mode' = mode
      BY <1>8 DEF EndOfFile, Start, Line, memory
    <2>2. ASSUME Waits(i, l) PROVE Waits(i, l)'
      <3>1. mode = "init" /\ i > dev
        <4>1. Len(snap) \in Nat
          BY DEF IInv, Reading
        <4>2. QED  BY <1>2, <1>8, <2>2, <4>1 DEF Waits, Unread, EndOfFile
      <3>2. dev' = dev + 1 /\ step' = "open"
        BY <1>2, <1>8, <3>1 DEF EndOfFile
      <3>3. Unread(i, l)'
        BY <1>2, <3>1, <3>2 DEF Unread
      <3>4. QED  BY <2>1, <2>2, <3>3 DEF Waits
    <2>3. QED  BY <1>4, <1>5, <2>1, <2>2
  <1>9. CASE ~Start /\ ~Open /\ ~Line /\ ~EndOfFile
    <2>1. ASSUME Waits(i, l) PROVE Waits(i, l)'
      <3>1. UNCHANGED place /\ prev' = prev
        BY <1>9, <2>1, WaitsStays, PrevStays
      <3>2. QED  BY <2>1, <3>1 DEF Waits, Unread, place
    <2>2. QED  BY <1>4, <1>5, <1>9, <2>1
  <1>10. QED  BY <1>3, <1>6, <1>7, <1>8, <1>9

(* Only the two calls of updateTotalValue make a total count as sent.         *)
LEMMA SentBefore ==
    ASSUME FollowInv, [Next]_vars, ~Start, ~Crash, ~Line
    PROVE  /\ ~NotifyCurrent /\ CurrentSent' => CurrentSent
           /\ ~NotifyVoltage /\ VoltageSent' => VoltageSent
  <1>1. ~InitLine /\ ~ChangedLine
    BY LineSteps
  <1>2. CASE UNCHANGED place
    BY <1>2, Zenon DEF place, CurrentSent, VoltageSent
  <1>3. CASE Open \/ SameLine \/ EndOfFile
    <2>1. mode' = mode /\ (step = "open" \/ step = "line")
      BY <1>3, Zenon DEF Open, SameLine, EndOfFile
    <2>2. step' \in {"open", "line"} \/ (mode = "init" /\ step' = "current")
      BY <1>3, Zenon DEF Open, SameLine, EndOfFile
    <2>3. QED  BY <2>1, <2>2 DEF CurrentSent, VoltageSent
  <1>4. CASE NotifyCurrent
    BY <1>4 DEF NotifyCurrent, CurrentSent, VoltageSent
  <1>5. CASE NotifyVoltage \/ Truncate \/ Save
    <2>1. step \in {"voltage", "truncate", "save"} /\ (step = "voltage" => NotifyVoltage)
      BY <1>5, Zenon DEF NotifyVoltage, Truncate, Save
    <2>2. mode \in {"init", "poll"}
      BY <2>1 DEF FollowInv, Stages
    <2>3. QED  BY <2>1, <2>2 DEF CurrentSent, VoltageSent
  <1>6. CASE \/ \E d \in Devices : FileAppears(d)
             \/ \E l \in 1..2, v \in PvVals : FileChanges(l, v)
             \/ ControllerExecutes \/ ControllerRestarts \/ LinkBreaks
             \/ UNCHANGED vars
    BY <1>2, <1>6, Zenon
       DEF FileAppears, FileChanges, ControllerExecutes, ControllerRestarts,
           LinkBreaks, vars
  <1>7. QED
    BY <1>1, <1>3, <1>4, <1>5, <1>6, Zenon DEF Next, Meter

(* The totals: a line puts them out of date, the two calls send them again.   *)
LEMMA TotalsStep == ASSUME IInv, FollowInv, [Next]_vars PROVE TotalsShown'
  <1> SUFFICES ASSUME link' = "ok"
               PROVE  /\ CurrentSent' => Follows(ctrl', pending', 10, total'["cur"])
                      /\ VoltageSent' => Follows(ctrl', pending', 26, total'["vol"])
    BY DEF TotalsShown
  <1>1. /\ TypeOK /\ 10 \in Registers /\ 26 \in Registers
        /\ \A i \in 1..3, l \in 1..2 : Addr(i, l) # 10 /\ Addr(i, l) # 26
    BY Constants, Addresses DEF IInv
  <1>2. CASE Start \/ Crash \/ Line
    <2>1. ~CurrentSent' /\ ~VoltageSent'
      BY <1>2 DEF Start, Crash, Line, CurrentSent, VoltageSent
    <2>2. QED  BY <2>1
  <1>3. CASE ~Start /\ ~Crash /\ ~Line
    <2>1. link = "ok"
      BY <1>3, StillConnected
    <2>2. ~InitLine /\ ~ChangedLine
      BY <1>3, LineSteps
    <2>3. total' = total
      BY <1>3, <2>2, Zenon
         DEF Next, Meter, FileAppears, FileChanges, Open, SameLine, EndOfFile,
             NotifyCurrent, NotifyVoltage, Truncate, Save, ControllerExecutes,
             ControllerRestarts, LinkBreaks, vars, memory
    <2>4. ASSUME ~NotifyCurrent, CurrentSent'
          PROVE  Follows(ctrl', pending', 10, total'["cur"])
      <3>1. Follows(ctrl, pending, 10, total["cur"])
        BY <1>3, <2>1, <2>4, SentBefore DEF FollowInv, TotalsShown
      <3>2. QED  BY <1>1, <1>3, <2>3, <2>4, <3>1, Touches
    <2>5. ASSUME ~NotifyVoltage, VoltageSent'
          PROVE  Follows(ctrl', pending', 26, total'["vol"])
      <3>1. Follows(ctrl, pending, 26, total["vol"])
        BY <1>3, <2>1, <2>5, SentBefore DEF FollowInv, TotalsShown
      <3>2. QED  BY <1>1, <1>3, <2>3, <2>5, <3>1, Touches
    <2>6. CASE NotifyCurrent
      <3>1. Notify(10, total["cur"]) /\ ~NotifyVoltage
        BY <2>6 DEF NotifyCurrent, NotifyVoltage, TotalAddress
      <3>2. Follows(ctrl', pending', 10, total["cur"])
        BY <1>1, <3>1, NotifyShows
      <3>3. QED  BY <2>3, <2>5, <3>1, <3>2
    <2>7. CASE NotifyVoltage
      <3>1. Notify(26, total["vol"]) /\ ~NotifyCurrent
        BY <2>7 DEF NotifyCurrent, NotifyVoltage, TotalAddress
      <3>2. Follows(ctrl', pending', 26, total["vol"])
        BY <1>1, <3>1, NotifyShows
      <3>3. QED  BY <2>3, <2>4, <3>1, <3>2
    <2>8. QED  BY <2>4, <2>5, <2>6, <2>7
  <1>4. QED  BY <1>2, <1>3

LEMMA FollowInit == Init => FollowInv
  <1> SUFFICES ASSUME Init PROVE FollowInv
    OBVIOUS
  <1>1. ASSUME NEW i \in 1..3, NEW l \in 1..2 PROVE Follows(ctrl, pending, Addr(i, l), 0)
    BY Addresses, NewFollows DEF Init
  <1>2. mode = "off" /\ step = "open" /\ link = "none"
    BY DEF Init
  <1>3. Untouched
    BY <1>1 DEF Untouched
  <1>4. Stages /\ Opened /\ ValuesShown /\ TotalsShown
    BY <1>2 DEF Stages, Opened, ValuesShown, TotalsShown
  <1>5. QED  BY <1>3, <1>4 DEF FollowInv

(* Between two changes every file has been read and both totals are sent.     *)
LEMMA FollowShows == ASSUME FollowInv PROVE ControllerInStep
  <1> SUFFICES ASSUME BetweenLines, link = "ok" PROVE Shows(prev, total)
    BY DEF ControllerInStep
  <1>1. mode = "poll" /\ step \in {"open", "line"} /\ CurrentSent /\ VoltageSent
    BY DEF BetweenLines, CurrentSent, VoltageSent
  <1>2. ASSUME NEW i \in 1..3, NEW l \in 1..2
        PROVE  ctrl[Address(Order[i], Lines[l])] \in ToRegister(prev[Order[i]][Lines[l]])
    BY <1>1 DEF FollowInv, ValuesShown, Waits, Shown, Follows, Addr
  <1>3. \A d \in Devices, k \in Kinds : \E i \in 1..3, l \in 1..2 :
            d = Order[i] /\ k = Lines[l]
    BY DEF Devices, Kinds, Order, Lines
  <1>4. ASSUME NEW d \in Devices, NEW k \in Kinds
        PROVE  ctrl[Address(d, k)] \in ToRegister(prev[d][k])
    <2>1. PICK i \in 1..3, l \in 1..2 : d = Order[i] /\ k = Lines[l]
      BY <1>3
    <2>2. QED  BY <1>2, <2>1
  <1>5. ctrl[10] \in ToRegister(total["cur"]) /\ ctrl[26] \in ToRegister(total["vol"])
    BY <1>1 DEF FollowInv, TotalsShown, Follows
  <1>6. ASSUME NEW k \in Kinds PROVE ctrl[TotalAddress(k)] \in ToRegister(total[k])
    BY <1>5 DEF Kinds, TotalAddress
  <1>7. QED  BY <1>4, <1>6 DEF Shows

(* As long as no call has failed, the controller holds all six values and     *)
(* both totals whenever the meter is between two changes, whatever the files  *)
(* hold, whenever they appear and change, and however often the processes     *)
(* start anew (initialize_registers, check_file_and_notify, updateTotalValue).*)
THEOREM ControllerFollows == Spec => []ControllerInStep
  <1>1. Init => IInv /\ FollowInv
    BY InvariantInit, FollowInit
  <1>2. IInv /\ FollowInv /\ [Next]_vars => (IInv /\ FollowInv)'
    <2> SUFFICES ASSUME IInv, FollowInv, [Next]_vars PROVE IInv' /\ FollowInv'
      OBVIOUS
    <2>1. IInv'
      BY InvariantStep
    <2>2. FollowInv'
      BY UntouchedStep, StagesStep, OpenedStep, ValuesStep, TotalsStep DEF FollowInv
    <2>3. QED  BY <2>1, <2>2
  <1>3. IInv /\ FollowInv => ControllerInStep
    BY FollowShows
  <1>4. QED  BY <1>1, <1>2, <1>3, PTL DEF Spec
=============================================================================
