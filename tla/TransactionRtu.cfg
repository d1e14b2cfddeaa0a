SPECIFICATION Spec
CONSTANTS
    Addrs = {1, 2}
    Served = {1, 2}
    Vals = {0, 7}
    InitVal = 0
    Tcp = FALSE
    Recovery = {{"link", "protocol"}}
    TidMod = 3
    MaxLag = 2
    MaxCalls = 3
    MaxConns = 1
PROPERTIES ReadsItsRegister
CHECK_DEADLOCK FALSE
