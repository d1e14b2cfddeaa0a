SPECIFICATION FairServerSpec
CONSTANTS
    Addrs = {1, 2}
    Served = {1}
    Vals = {0, 7}
    InitVal = 0
    Tcp = TRUE
    Recovery = {{}, {"link", "protocol", "application"}}
    TidMod = 3
    MaxLag = 2
    MaxCalls = 4
    MaxConns = 2
INVARIANTS TypeOK AckedMatchesServer SuccessDrains
PROPERTIES ImplementsRemote OutOfStepForGood ExecutedInOrder CallReturns RequestsLeave
CHECK_DEADLOCK FALSE
