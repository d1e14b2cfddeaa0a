SPECIFICATION FairSpec
CONSTANTS
    Requests <- MCRequests
    HeaderLength = 1
    MaxAdu = 13
    SumMax = 13
    MaxCalls = 2
INVARIANTS TypeOK InsideBuffer InStep LegalAnswered
PROPERTIES  LeavesMessage
CHECK_DEADLOCK FALSE
