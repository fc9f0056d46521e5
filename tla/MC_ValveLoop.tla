---------------------------- MODULE MC_ValveLoop ----------------------------
(* Small instances of ValveLoop: one circuit, whose neighbours are the        *)
(* faults they cause (RestRaises), and clocks in the order of config.yaml:    *)
(* the watchdog is over before the sensor data is stale.                     *)
EXTENDS ValveLoop

CONSTANT hk01
=============================================================================
