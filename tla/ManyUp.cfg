SPECIFICATION FairSpec
CONSTANTS
    Clients = {c1, c2, c3}
    Srv = 3
    MaxFd = 5
    MaxInbox = 1
INVARIANTS TypeOK FdmaxCovers NeverWaitsForOne
PROPERTIES Turn PendingAccepted
