SPECIFICATION Spec
CONSTANTS
    NumRegisters = 2
    FileRegs = {1}
    Requested = {1,2}
    Vals = {7,300}
    InitReg = 10
    InitLine = 100
    MaxAdded = 1
    MaxFaults = 0
INVARIANTS FileHoldsRegister
CHECK_DEADLOCK FALSE
