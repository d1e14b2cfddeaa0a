-------------------------- MODULE MCSubstationMeter --------------------------
(* Instances of SubstationMeter with the values of the simulators' files:    *)
(* Meter.cfg, MeterStale.cfg.                                               *)
EXTENDS SubstationMeter
=============================================================================
