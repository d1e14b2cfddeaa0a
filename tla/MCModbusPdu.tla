----------------------------- MODULE MCModbusPdu -----------------------------
(* Tables that hold the largest legal reads, starting at address 1, with      *)
(* values that are all different in their low byte or none at all.            *)
EXTENDS DataConversion

MCStart == [t \in Tables |-> 1]

MCSize ==
    [t \in Tables |-> IF t \in {"bits", "input_bits"} THEN 2000 ELSE 125]

MCBitTables ==
    {[i \in 0..1999 |-> i % 3 = 0 \/ i % 5 = 1], [i \in 0..1999 |-> TRUE]}

MCWordTables ==
    {[i \in 0..124 |-> {b \in 0..6 : (i \div 2^b) % 2 = 1} \cup {8 + (i % 8)}],
     [i \in 0..124 |-> {15}]}

MCWords == {{}, 0..15, {0, 3, 8, 12}, {3, 7, 12, 15}}

MCIdentity == [i \in 1..11 |-> {i % 8}]
=============================================================================
