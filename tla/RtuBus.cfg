SPECIFICATION FairSpec
CONSTANTS
    Slaves = {1, 2}
    Vals = {0, 7}
    InitVal = 0
    MaxCalls = 2
    MaxBacklog = 1
    MaxNoise = 1
INVARIANTS TypeOK Heard AckedMatchesSlave
PROPERTIES OwnInOrder BackInPhase
CHECK_DEADLOCK FALSE
