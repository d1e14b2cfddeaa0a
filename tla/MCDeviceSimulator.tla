-------------------------- MODULE MCDeviceSimulator --------------------------
(* Instances of DeviceSimulator: the inverter, whose file has a line for a    *)
(* register of its mapping, and the EV charger and the heat pump, whose       *)
(* update_file names no register of the mapping as the file does.             *)
EXTENDS DeviceSimulator
=============================================================================
