------------------------ MODULE MC_CompressorGuard ------------------------
(* Small instances of CompressorGuard: a cooling setpoint or two, at most one*)
(* heating setpoint, the sentinel above them, and clocks of a few cycles.   *)
EXTENDS CompressorGuard

\* The margin less its target: low and below the limit (with a target of 2), low,
\* spare, and unknown.
LowOrGood == {-3, -2, 2}
AnyReading == {-2, 2, None}
=============================================================================
