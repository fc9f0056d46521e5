--------------------------- MODULE MC_ReturnGate ---------------------------
(* Small instances of ReturnGate: one circuit, whose neighbours are the      *)
(* faults they cause, and clocks of a few cycles in the order of config.yaml:*)
(* watchdog, settling, flush.                                                *)
EXTENDS ReturnGate

CONSTANT hk01
=============================================================================
