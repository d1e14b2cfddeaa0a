-------------------------- MODULE MCReceiveFraming --------------------------
(* A small instance of ReceiveFraming: a header of one byte, an ADU of 13.    *)
EXTENDS ReceiveFraming

Raw(fn, count, size, verdict) ==
    [fn |-> fn, count |-> count, size |-> size, verdict |-> verdict]

MCRequests ==
    {Raw(3, 0, 4, "legal"), Raw(6, 0, 6, "legal"),  \* the second with bytes behind it
     Raw(3, 0, 4, "address"),
     Raw(5, 0, 4, "value"),    \* a coil that is neither ON nor OFF
     Raw(5, 0, 6, "value"),    \* the same, with bytes behind it
     Raw(16, 2, 7, "legal"), Raw(23, 2, 11, "legal"),
     Raw(22, 0, 6, "legal"), \* a mask write
     Raw(23, 2, 11, "value"),  \* reads or writes 0 registers
     Raw(16, 0, 7, "value"),   \* longer than it says
     Raw(16, 3, 7, "value"),   \* shorter than it says
     Raw(16, 9, 7, "value"),   \* too long for the ADU
     Raw(3, 0, 1, "value"),    \* cut
     Raw(66, 0, 4, "value"),   \* an unknown function
     Raw(7, 0, 0, "value")}    \* one that is not answered
=============================================================================
