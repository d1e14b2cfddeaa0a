----------------------------- MODULE MCRtuBus ------------------------------
(* A small instance of RtuBus: two slaves, of which one may be missing.       *)
EXTENDS RtuBus
=============================================================================
