SPECIFICATION Spec
CONSTANTS
    Start <- MCStart
    Size <- MCSize
    BitTables <- MCBitTables
    WordTables <- MCWordTables
    Identity <- MCIdentity
    Slaves = {0, 1}
    Addrs = {0, 1, 2}
    BitCounts = {0, 1, 8, 9, 1968, 1969, 2000, 2001}
    WordCounts = {0, 1, 2, 121, 122, 123, 124, 125, 126}
    Words <- MCWords
    MaxCalls = 1
INVARIANTS FloatsRoundTrip
CHECK_DEADLOCK FALSE
