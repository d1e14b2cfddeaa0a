SPECIFICATION FairSpec
CONSTANTS
    InitCur = 100
    InitVol = 1000
    PvVals = {75}
    Width = 65536
    MaxChanges = 1
    MaxRestarts = 1
    MaxPending = 2
INVARIANTS TypeOK TotalsAccount ControllerInStep FileInStep
PROPERTIES ControllerConverges
