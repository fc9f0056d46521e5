--------------------------- MODULE RegisterCache ---------------------------
(***************************************************************************)
(* What heatctl's heat pump client (heatctl/heatpump.py) promises about    *)
(* ONE configuration register: the value in the unit's flash, the copy of  *)
(* it in HeatPump.config, and the sample a slow read of the whole space    *)
(* has taken and not yet installed.  HeatPump implements this for every    *)
(* register; CompressorGuard builds the control loop on it for P04.        *)
(***************************************************************************)
CONSTANTS
  Value,     \* raw values of the register
  Unread     \* stands for a key that is missing from a Python dict, and is no value

VARIABLES
  dev,       \* the register in the unit's flash
  cache,     \* HeatPump.config[addr]; Unread until the first full read
  sample     \* the value a full read holds but has not installed; Unread if none

vars == <<dev, cache, sample>>

Init ==
  /\ dev \in Value
  /\ cache = Unread
  /\ sample = Unread

\* A write the unit acknowledged: the client sets the cache in the same step.
AckedWrite(v) ==
  /\ dev' = v
  /\ cache' = v
  /\ UNCHANGED sample

\* The flash changes behind the cache: someone at the unit's own panel, or a
\* write of ours whose acknowledgement was lost.
UnseenChange(v) ==
  /\ dev' = v
  /\ UNCHANGED <<cache, sample>>

\* The chunk of a full read that covers this register is answered.
Sample ==
  /\ sample = Unread
  /\ sample' = dev
  /\ UNCHANGED <<dev, cache>>

\* The full read ends: the sample replaces the cache, whatever was written since.
Install ==
  /\ sample # Unread
  /\ cache' = sample
  /\ sample' = Unread
  /\ UNCHANGED dev

\* A later chunk failed: the whole read is thrown away.
Discard ==
  /\ sample # Unread
  /\ sample' = Unread
  /\ UNCHANGED <<dev, cache>>

\* A read whose answer is installed at once (the control block, or the last
\* chunk of a full read that found nothing to report).
Refresh ==
  /\ sample = Unread
  /\ cache' = dev
  /\ UNCHANGED <<dev, sample>>

Next ==
  \/ \E v \in Value : AckedWrite(v) \/ UnseenChange(v)
  \/ Sample \/ Install \/ Discard \/ Refresh

Spec == Init /\ [][Next]_vars
=============================================================================
