------------------------ MODULE DeviceSimulatorProofs ------------------------
(* Theorems about DeviceSimulator for every set of values and addresses that  *)
(* the clients send, and for both of its register files.                      *)
EXTENDS DeviceSimulator, SequenceTheorems, TLAPS

LEMMA Bytes ==
    ASSUME NEW v \in Words
    PROVE  Low(v) \in 0..255 /\ High(v) \in 0..255
  <1>1. v \in Nat /\ v % 256 \in 0..255
    BY DEF Words
  <1>2. v \div 256 \in Nat /\ 256 * (v \div 256) <= v
    BY <1>1
  <1>3. v \div 256 \in 0..255
    BY <1>2 DEF Words
  <1>4. QED  BY <1>1, <1>3 DEF Low, High

\* a value the file shows for a low byte and whatever lies behind the request
LEMMA TenthsOfByte ==
    ASSUME NEW l \in 0..255, NEW p \in 0..255
    PROVE  /\ Tenths(l * 256 + p) \in Nat
           /\ Tenths(l * 256 + p) - 10 * l \in 0..10
  <1> DEFINE n == l * 256 + p
             q == (10 * n) \div 256
  <1>1. n \in Nat /\ 10 * n = 256 * (10 * l) + 10 * p
    OBVIOUS
  <1>2. q \in Nat /\ 256 * q <= 10 * n /\ 10 * n < 256 * q + 256
    BY <1>1
  <1>3. q - 10 * l \in 0..9
    BY <1>1, <1>2
  <1>4. Tenths(n) = q \/ Tenths(n) = q + 1
    BY DEF Tenths
  <1> HIDE DEF n, q
  <1>5. QED  BY <1>2, <1>3, <1>4 DEF n

LEMMA ShiftedType ==
    ASSUME NEW v \in Words, NEW w \in Words
    PROVE  Shifted(v, w) \in Words
  <1>1. Low(v) \in 0..255 /\ High(w) \in 0..255
    BY Bytes
  <1>2. ASSUME NEW l \in 0..255, NEW h \in 0..255 PROVE l * 256 + h \in Words
    BY DEF Words
  <1>3. QED  BY <1>1, <1>2 DEF Shifted

IInv == TypeOK /\ FileShowsLowByte

-----------------------------------------------------------------------------

LEMMA InvariantInit == Init => IInv
  <1> SUFFICES ASSUME Init PROVE IInv
    OBVIOUS
  <1> USE DEF Init
  <1>1. /\ regs \in [Registers -> Words] /\ past \in 0..255
        /\ lines \in [FileRegs -> Shown] /\ added \in Seq(Nat) /\ faults \in Nat
    BY DEF Words, Shown
  <1>2. origin \in [Registers -> {"reset", "single", "other"}]
    OBVIOUS
  <1>3. /\ backend \in {"tcp", "tcppi", "rtu"} /\ client \in BOOLEAN
        /\ phase \in {"off", "setup", "listening", "serving", "ended"}
        /\ exists \in BOOLEAN
    BY Zenon
  <1>4. TypeOK
    BY <1>1, <1>2, <1>3, Zenon DEF TypeOK
  <1>5. FileShowsLowByte
    BY DEF FileShowsLowByte
  <1>6. QED  BY <1>4, <1>5 DEF IInv

\* steps of the process and its connections that leave the registers alone
LEMMA StepOutside ==
    ASSUME IInv,
           \/ Start \/ Listen \/ ListenFails \/ AcceptFails \/ ClientLeaves
           \/ CleanUp \/ Crash \/ WriteCoil \/ \E a \in Requested : OutsideKills(a)
           \/ UNCHANGED vars
    PROVE  IInv'
  <1>1. UNCHANGED <<backend, regs, added, origin>>
    BY Zenon DEF Start, Listen, ListenFails, AcceptFails, ClientLeaves, CleanUp,
       Crash, WriteCoil, OutsideKills, Dies, file, process, vars
  <1>2. /\ phase' \in {"off", "setup", "listening", "ended"}
           \/ (phase' = phase /\ lines' = lines)
        /\ client' \in BOOLEAN /\ exists' \in BOOLEAN
    BY Zenon DEF Start, Listen, ListenFails, AcceptFails, ClientLeaves, CleanUp,
       Crash, WriteCoil, OutsideKills, Dies, file, process, vars, IInv, TypeOK
  <1>3. past' \in 0..255
    <2>1. past' = past \/ past' = 0
      BY Zenon DEF Start, Listen, ListenFails, AcceptFails, ClientLeaves, CleanUp,
         Crash, WriteCoil, OutsideKills, vars
    <2>2. past \in 0..255 /\ 0 \in 0..255
      BY DEF IInv, TypeOK
    <2>3. QED  BY <2>1, <2>2, Zenon
  <1>4. lines' \in [FileRegs -> Shown]
    <2>1. lines' = lines \/ lines' = [a \in FileRegs |-> InitLine]
      BY Zenon DEF Start, Listen, ListenFails, AcceptFails, ClientLeaves, CleanUp,
         Crash, WriteCoil, OutsideKills, file, vars
    <2>2. QED  BY <2>1, DeviceAssumption DEF IInv, TypeOK
  <1>5. faults' \in Nat
    <2>1. faults' = faults \/ faults' = faults + 1
      BY Zenon DEF Start, Listen, ListenFails, AcceptFails, ClientLeaves, CleanUp,
         Crash, WriteCoil, OutsideKills, vars
    <2>2. QED  BY <2>1 DEF IInv, TypeOK
  <1>6. TypeOK'
    BY <1>1, <1>2, <1>3, <1>4, <1>5, Zenon DEF IInv, TypeOK
  <1>7. FileShowsLowByte'
    BY <1>1, <1>2, Zenon DEF IInv, FileShowsLowByte
  <1>8. QED  BY <1>6, <1>7 DEF IInv

LEMMA StepAccept ==
    ASSUME IInv, Accept
    PROVE  IInv'
  <1>1. /\ phase' = "serving" /\ client' = TRUE
        /\ regs' = [a \in Registers |-> InitReg]
        /\ origin' = [a \in Registers |-> "reset"]
        /\ UNCHANGED <<backend, past, file, faults>>
    BY Zenon DEF Accept
  <1>2. regs' \in [Registers -> Words]
        /\ origin' \in [Registers -> {"reset", "single", "other"}]
    BY <1>1, DeviceAssumption
  <1>3. TypeOK'
    BY <1>1, <1>2, Zenon DEF IInv, TypeOK, file
  <1>4. FileShowsLowByte'
    BY <1>1, DeviceAssumption DEF FileShowsLowByte, Registers
  <1>5. QED  BY <1>3, <1>4 DEF IInv

LEMMA StepWriteSingle ==
    ASSUME IInv, NEW a \in Requested, NEW v \in Vals, WriteSingle(a, v)
    PROVE  IInv'
  <1> DEFINE shown == Tenths(Low(v) * 256 + past)
  <1>1. /\ \/ a \in FileRegs /\ lines' = [lines EXCEPT ![a] = shown]
                             /\ UNCHANGED <<exists, added>>
           \/ a \notin FileRegs /\ added' = Append(added, a)
                                /\ UNCHANGED <<exists, lines>>
        /\ \/ a \in Registers /\ regs' = [regs EXCEPT ![a] = v]
                              /\ origin' = [origin EXCEPT ![a] = "single"]
           \/ a \notin Registers /\ UNCHANGED <<regs, origin>>
        /\ UNCHANGED <<process, past, faults>>
    BY Zenon DEF WriteSingle, UpdateFile
  <1>2. /\ v \in Words /\ a \in Nat /\ past \in 0..255 /\ Low(v) \in 0..255
        /\ FileRegs \subseteq Registers
    <2>1. v \in Words /\ a \in Nat /\ FileRegs \subseteq Registers
      BY DeviceAssumption DEF Registers
    <2>2. past \in 0..255
      BY DEF IInv, TypeOK
    <2>3. QED  BY <2>1, <2>2, Bytes
  <1>3. shown \in Nat /\ shown - 10 * Low(v) \in 0..10
    BY <1>2, TenthsOfByte
  <1>4. shown \in Shown
    BY <1>2, <1>3 DEF Shown
  <1> HIDE DEF shown
  <1>5. /\ regs \in [Registers -> Words] /\ lines \in [FileRegs -> Shown]
        /\ origin \in [Registers -> {"reset", "single", "other"}] /\ added \in Seq(Nat)
    BY DEF IInv, TypeOK
  <1>6. /\ regs' \in [Registers -> Words] /\ lines' \in [FileRegs -> Shown]
        /\ origin' \in [Registers -> {"reset", "single", "other"}] /\ added' \in Seq(Nat)
    <2>1. regs' \in [Registers -> Words]
      BY <1>1, <1>2, <1>5
    <2>2. lines' \in [FileRegs -> Shown]
      BY <1>1, <1>4, <1>5
    <2>3. origin' \in [Registers -> {"reset", "single", "other"}]
      BY <1>1, <1>5
    <2>4. added' \in Seq(Nat)
      <3>1. Append(added, a) \in Seq(Nat)
        BY <1>2, <1>5
      <3>2. added' = added \/ added' = Append(added, a)
        BY <1>1, Zenon
      <3>3. QED  BY <1>5, <3>1, <3>2, Zenon
    <2>5. QED  BY <2>1, <2>2, <2>3, <2>4
  <1>7. exists' = exists
    BY <1>1, Zenon
  <1>8. TypeOK'
    BY <1>1, <1>6, <1>7, Zenon DEF IInv, TypeOK, process
  <1>9. ASSUME phase' = "serving", NEW b \in FileRegs, origin'[b] = "single"
        PROVE  lines'[b] - 10 * Low(regs'[b]) \in 0..10
    <2>1. CASE b = a
      <3>1. lines'[b] = shown /\ regs'[b] = v
        BY <1>1, <1>2, <1>5, <2>1
      <3>2. QED  BY <1>3, <3>1
    <2>2. CASE b # a
      <3>1. lines'[b] = lines[b] /\ regs'[b] = regs[b] /\ origin'[b] = origin[b]
            /\ phase = "serving"
        BY <1>1, <1>2, <1>5, <1>9, <2>2 DEF process
      <3>2. QED  BY <1>9, <3>1 DEF IInv, FileShowsLowByte
    <2>3. QED  BY <2>1, <2>2
  <1>10. QED  BY <1>8, <1>9 DEF IInv, FileShowsLowByte

LEMMA StepWriteTwo ==
    ASSUME IInv, NEW a \in Requested, NEW v \in Vals, NEW w \in Vals,
           NEW end \in {0, 255}, WriteTwo(a, v, w, end)
    PROVE  IInv'
  <1>1. v \in Words /\ w \in Words /\ end * 256 \in Words
    BY DeviceAssumption DEF Words
  <1> DEFINE new == Stored(a, v, w, end)
  <1>2. new \in Words \X Words
    <2>1. <<v, w>> \in Words \X Words
      BY <1>1
    <2>2. <<Shifted(v, w), Shifted(w, end * 256)>> \in Words \X Words
      BY <1>1, ShiftedType
    <2>3. QED  BY <2>1, <2>2, Zenon DEF Stored
  <1>3. /\ regs' = [r \in Registers |-> CASE r = a     -> new[1]
                                        [] r = a + 1 -> new[2]
                                        [] OTHER     -> regs[r]]
        /\ past' = 4 /\ UNCHANGED <<process, file, faults>>
        /\ origin' = [r \in Registers |-> IF r \in {a, a + 1} THEN "other" ELSE origin[r]]
    BY Zenon DEF WriteTwo
  <1> HIDE DEF new
  <1>4. /\ regs' \in [Registers -> Words] /\ past' \in 0..255
        /\ origin' \in [Registers -> {"reset", "single", "other"}]
    BY <1>2, <1>3 DEF IInv, TypeOK
  <1>5. TypeOK'
    <2>1. /\ backend' = backend /\ phase' = phase /\ client' = client
          /\ exists' = exists /\ lines' = lines /\ added' = added /\ faults' = faults
      BY <1>3, Zenon DEF process, file
    <2>2. lines' \in [FileRegs -> Shown] /\ added' \in Seq(Nat) /\ faults' \in Nat
      BY <2>1 DEF IInv, TypeOK
    <2>3. backend' \in {"tcp", "tcppi", "rtu"}
          /\ phase' \in {"off", "setup", "listening", "serving", "ended"}
      BY <2>1 DEF IInv, TypeOK
    <2>4. client' \in BOOLEAN /\ exists' \in BOOLEAN
      <3>1. client \in BOOLEAN /\ exists \in BOOLEAN
        BY DEF IInv, TypeOK
      <3>2. QED  BY <2>1, <3>1
    <2>5. QED  BY <1>4, <2>2, <2>3, <2>4, Zenon DEF TypeOK
  <1>6. ASSUME phase' = "serving", NEW b \in FileRegs, origin'[b] = "single"
        PROVE  lines'[b] - 10 * Low(regs'[b]) \in 0..10
    <2>1. b \in Registers
      BY DeviceAssumption DEF Registers
    <2>2. b # a /\ b # a + 1 /\ origin[b] = "single"
      BY <1>3, <1>6, <2>1
    <2>3. regs'[b] = regs[b] /\ lines'[b] = lines[b] /\ phase = "serving"
      BY <1>3, <1>6, <2>1, <2>2 DEF process, file
    <2>4. QED  BY <2>2, <2>3 DEF IInv, FileShowsLowByte
  <1>7. QED  BY <1>5, <1>6 DEF IInv, FileShowsLowByte

LEMMA StepMaskWrite ==
    ASSUME IInv, NEW a \in Requested, NEW v \in Vals, MaskWrite(a, v)
    PROVE  IInv'
  <1>1. /\ \/ /\ a \in Registers /\ regs' = [regs EXCEPT ![a] = v]
              /\ origin' = [origin EXCEPT ![a] = "other"]
           \/ UNCHANGED <<regs, origin>>
        /\ past' = High(v) /\ UNCHANGED <<process, file, faults>>
    BY Zenon DEF MaskWrite
  <1>2. v \in Words /\ past' \in 0..255
    <2>1. v \in Words
      BY DeviceAssumption
    <2>2. QED  BY <1>1, <2>1, Bytes
  <1>3. regs \in [Registers -> Words]
        /\ origin \in [Registers -> {"reset", "single", "other"}]
    BY DEF IInv, TypeOK
  <1>4. regs' \in [Registers -> Words]
        /\ origin' \in [Registers -> {"reset", "single", "other"}]
    BY <1>1, <1>2, <1>3
  <1>5. TypeOK'
    BY <1>1, <1>2, <1>4, Zenon DEF IInv, TypeOK, process, file
  <1>6. ASSUME phase' = "serving", NEW b \in FileRegs, origin'[b] = "single"
        PROVE  lines'[b] - 10 * Low(regs'[b]) \in 0..10
    <2>1. b \in Registers
      BY DeviceAssumption DEF Registers
    <2>2. origin[b] = "single" /\ regs'[b] = regs[b]
      BY <1>1, <1>3, <1>6, <2>1
    <2>3. lines'[b] = lines[b] /\ phase = "serving"
      BY <1>1, <1>6 DEF process, file
    <2>4. QED  BY <2>2, <2>3 DEF IInv, FileShowsLowByte
  <1>7. QED  BY <1>5, <1>6 DEF IInv, FileShowsLowByte

LEMMA InvariantStep == IInv /\ [Next]_vars => IInv'
  BY StepOutside, StepAccept, StepWriteSingle, StepWriteTwo, StepMaskWrite, ZenonT(60)
     DEF Next, Request

LEMMA Invariant == Spec => []IInv
  BY InvariantInit, InvariantStep, PTL DEF Spec

(* The variables keep their types (TypeOK).                                   *)
THEOREM TypeCorrect == Spec => []TypeOK
  <1>1. IInv => TypeOK
    BY DEF IInv
  <1>2. QED  BY <1>1, Invariant, PTL

(* For every 16-bit value and every byte behind the request, the file shows   *)
(* the low byte of a register that a single write set last (update_file).     *)
THEOREM LowByteInFile == Spec => []FileShowsLowByte
  <1>1. IInv => FileShowsLowByte
    BY DEF IInv
  <1>2. QED  BY <1>1, Invariant, PTL

(* Nothing but a request changes an existing file: not a restart, not the     *)
(* next connection (initialize_file).                                         *)
THEOREM FileSurvives == Spec => FileOutlivesProcess
  <1>1. [Next]_vars =>
          [exists /\ <<lines, added>>' # <<lines, added>> => phase = "serving"]_vars
    BY Zenon DEF Next, Request, Start, Listen, ListenFails, Accept, AcceptFails,
       ClientLeaves, CleanUp, Crash, WriteCoil, OutsideKills, WriteSingle, WriteTwo,
       MaskWrite, file, vars
  <1>2. QED  BY <1>1, PTL DEF Spec, FileOutlivesProcess
=============================================================================
