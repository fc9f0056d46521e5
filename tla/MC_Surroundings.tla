-------------------------- MODULE MC_Surroundings --------------------------
(* What surrounds the sources' control: the valve outputs and their coupler, *)
(* the gate in front of the return sensors, and the two recorders.  They     *)
(* share nothing that matters to their properties, so they are explored side *)
(* by side: one circuit, whose neighbours are the faults they cause          *)
(* (RestRaises, AbortedCycle), and clocks of a few cycles in the order of    *)
(* config.yaml: watchdog, stale sensor data; watchdog, settling, flush.      *)
EXTENDS ValveLoop, ReturnGate, MC_Recorders

CONSTANT hk01

VARIABLE part   \* which of them this behaviour is about
mcVars == <<part, vars, gateVars, recordersVars>>

\* Nothing is open and nothing hangs in the parts that rest.
MCInit ==
  /\ part \in {"valves", "gate", "recorders"}
  /\ Init /\ GateInit /\ RecordersInit
  /\ part # "gate" => \A c \in Circuit : out[c] = "shut"
  /\ part # "recorders" => recorder = "bridge"
  /\ part = "recorders" \/ ~hangs
MCNext ==
  /\ UNCHANGED part
  /\ \/ part = "valves" /\ Next /\ UNCHANGED <<gateVars, recordersVars>>
     \/ part = "gate" /\ GateNext /\ UNCHANGED <<vars, recordersVars>>
     \/ part = "recorders" /\ RecordersNext /\ UNCHANGED <<vars, gateVars>>
MCSpec ==
  /\ MCInit /\ [][MCNext]_mcVars
  /\ WF_vars(part = "valves" /\ Loop)
  /\ WF_vars(part = "valves" /\ PlaneConnects /\ UNCHANGED fault)
  /\ SF_gateVars(part = "gate" /\ FullCycle)
  /\ WF_bridgeVars(part = "recorders" /\ recorder = "bridge" /\ Run)
  /\ WF_bridgeVars(part = "recorders" /\ recorder = "bridge"
                     /\ \E n \in 1..Rate : TimePasses(n))

\* NoLockOut, where the gate is not at rest.
GateNotLockedOut == part = "gate" => NoLockOut
=============================================================================
