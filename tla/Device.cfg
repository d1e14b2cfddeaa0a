SPECIFICATION FairSpec
CONSTANTS
    NumRegisters = 2
    FileRegs = {1}
    Requested = {1,2}
    Vals = {7,300,65280}
    InitReg = 10
    InitLine = 100
    MaxAdded = 1
    MaxFaults = 1
INVARIANTS TypeOK FileShowsLowByte
PROPERTIES FileOutlivesProcess ListensAgain
CHECK_DEADLOCK FALSE
