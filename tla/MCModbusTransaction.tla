------------------------ MODULE MCModbusTransaction ------------------------
(* Small instances of ModbusTransaction: TransactionTcp.cfg recovers from     *)
(* errors or does not, TransactionRtu.cfg has no transaction identifier.      *)
EXTENDS ModbusTransaction
=============================================================================
