SPECIFICATION FairSpec
CONSTANTS
    NumRegisters = 2
    FileRegs = {1}
    Requested = {1}
    Vals = {300}
    InitReg = 10
    InitLine = 100
    MaxAdded = 0
    MaxFaults = 0
PROPERTIES RtuServes
CHECK_DEADLOCK FALSE
