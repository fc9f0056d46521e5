----------------------------- MODULE ReturnGate -----------------------------
(***************************************************************************)
(* When may a circuit's return temperature be believed?  The sensor sits   *)
(* on the manifold, so it measures the circuit only while water moves      *)
(* through it.  heatctl/rl_gate.py answers from the positions that were     *)
(* WRITTEN; the control cycle of heatctl/main.py asks it, runs the return   *)
(* loop, flushes or holds, and writes the valves one after the other        *)
(* through heatctl/backends/modbus_direct.py to a coupler that zeroes its   *)
(* outputs by itself when no write has reached it for a while.              *)
(*                                                                         *)
(* A position is "open" at or above min_opening_pct and "shut" below it.   *)
(* Time is counted in control cycles.  Only circuits with an actuator are   *)
(* modelled: the others are always measured.                                *)
(***************************************************************************)
EXTENDS Integers

CONSTANTS
  Circuit,        \* the circuits with a fitted actuator
  None,           \* Python's None
  Settle,         \* settle_s, in cycles
  FlushInterval,  \* flush_interval_s, in cycles
  Trip,           \* watchdog_timeout_s, in cycles
  Lossy           \* whether a failed write may have been stored all the same

GatePosition == {"shut", "open"}

ASSUME GateAssumption ==
  /\ Settle \in Nat \ {0}
  /\ FlushInterval \in Nat \ {0}
  /\ Trip \in Nat \ {0}
  /\ None \notin Int \cup GatePosition \cup {"measure", "flush", "hold"}
  /\ Circuit # {}
  /\ Lossy \in BOOLEAN

VARIABLES
  gate,        \* RLGate._c: ages of open_since and last_trusted, held, flushing
  source,      \* what drove a circuit in the last cycle that came this far:
               \* its return ("return"), the room air ("air"), neither ("fault")
  shutBy,      \* the circuits an override or screed protection shut in it
  verdict,     \* RLGate.action of this cycle, None if the return loop did not ask
  out,         \* the coupler's outputs
  flow,        \* how long an output has been open, up to Settle
  sinceWrite,  \* how long no write has reached the coupler, up to Trip
  behind       \* circuits the gate takes for open, and something shut meanwhile

asked == <<source, shutBy, verdict>>
gateVars == <<gate, asked, out, flow, sinceWrite, behind>>

Gate == [open : 0..Settle \cup {None}, trust : 0..FlushInterval \cup {None},
         held : GatePosition \cup {None}, flushing : BOOLEAN]

NewGate == [open |-> None, trust |-> None, held |-> None, flushing |-> FALSE]

GateTypeOK ==
  /\ gate \in [Circuit -> Gate]
  /\ source \in [Circuit -> {"return", "air", "fault"}]
  /\ shutBy \in SUBSET Circuit
  /\ verdict \in [Circuit -> {"measure", "flush", "hold", None}]
  /\ out \in [Circuit -> GatePosition]
  /\ flow \in [Circuit -> 0..Settle]
  /\ sinceWrite \in 0..Trip
  /\ behind \in SUBSET Circuit

NoVerdict == [c \in Circuit |-> None]

GateInit ==
  /\ gate = [c \in Circuit |-> NewGate]
  /\ source = [c \in Circuit |-> "return"]
  /\ shutBy = {}
  /\ verdict = NoVerdict
  /\ out \in [Circuit -> GatePosition]
  /\ flow = [c \in Circuit |-> 0]
  /\ sinceWrite = 0
  /\ behind = {}

----------------------------------------------------------------------------
(* heatctl/rl_gate.py *)

OlderOffByOne(age, limit) == IF age <= limit THEN age + 1 ELSE age   \* mutant
Older(age, limit) == IF age < limit THEN age + 1 ELSE age

\* A cycle later.
GateAged(g) ==
  [g EXCEPT !.open = IF @ = None THEN None ELSE Older(@, Settle),
            !.trust = IF @ = None THEN None ELSE Older(@, FlushInterval)]

GateSettled(g) == g.open # None /\ g.open >= Settle

Overdue(g) == g.trust # None /\ g.trust >= FlushInterval

\* RLGate.action, what it changes ...
LookCountingTheFlush(g) ==   \* mutant: a flush counts as a reading from its start
  IF GateSettled(g) \/ Overdue(g)
    THEN [g EXCEPT !.trust = 0, !.flushing = FALSE]
    ELSE g
Look(g) ==
  IF GateSettled(g)
    THEN [g EXCEPT !.trust = 0, !.flushing = FALSE]
    ELSE [g EXCEPT !.flushing = @ \/ Overdue(g)]

\* ... and what it answers.
Answer(g) ==
  IF GateSettled(g) THEN "measure"
  ELSE IF g.flushing \/ Overdue(g) THEN "flush" ELSE "hold"

\* RLGate.record_command: the clock starts with the first write that opens.
RecordOpening(g, pct) ==   \* mutant: a write below the threshold is not noted
  IF pct = "open" /\ g.open = None THEN [g EXCEPT !.open = 0] ELSE g
GateRecord(g, pct) ==
  IF pct = "shut" THEN [g EXCEPT !.open = None]
  ELSE IF g.open = None THEN [g EXCEPT !.open = 0] ELSE g

----------------------------------------------------------------------------
(* The control cycle, Controller.step *)

\* What a cycle finds: what drives each circuit, what its PID would ask for, which
\* circuits are raised (distribution, flow floor, frost) or forced shut (override,
\* screed protection) on top of it.
Inputs ==
  {input \in [src : [Circuit -> {"return", "air", "fault"}],
              pid : [Circuit -> GatePosition],
              raised : SUBSET Circuit, shut : SUBSET Circuit] :
     input.raised \cap input.shut = {}}

\* A circuit driven by its return is asked about; a trusted return also moves
\* the position that is held afterwards (note_control).
Controlled(c, input) ==
  LET g == GateAged(gate[c]) IN
  IF input.src[c] # "return" THEN g
  ELSE IF GateSettled(g) THEN [Look(g) EXCEPT !.held = input.pid[c]] ELSE Look(g)

Asked(c, input) == IF input.src[c] = "return" THEN Answer(GateAged(gate[c])) ELSE None

\* _return_control, the room's own PID, and a sensor that is gone: fail open.
Proposed(c, input) ==
  CASE input.src[c] = "fault" -> "open"
    [] input.src[c] = "air" -> input.pid[c]
    [] Asked(c, input) = "measure" -> input.pid[c]
    [] Asked(c, input) = "flush" -> "open"
    [] OTHER -> IF gate[c].held = None THEN "open" ELSE gate[c].held

\* Distribution, the flow floor and frost protection only ever raise a position;
\* an override or screed protection may shut the circuit, but an override never
\* one whose sensor is gone (Safety.apply).
Commanded(c, input) ==
  IF c \in input.shut THEN "shut"
  ELSE IF c \in input.raised THEN "open" ELSE Proposed(c, input)

\* Water moves through an output that was already open.
Flowing(c, now) ==
  IF now[c] = "open" THEN (IF out[c] = "open" THEN Older(flow[c], Settle) ELSE 0)
                     ELSE 0

Wrote(stored) == sinceWrite' = IF stored = {} THEN Older(sinceWrite, Trip) ELSE 0

\* For the properties: outputs shut that the gate goes on counting as open.
ShutUnseen(circuits) ==
  behind' = {c \in behind \cup circuits : gate'[c].open # None}

\* What a cycle may find and decide, common to the ones below.  Written: the
\* circuits whose write was acknowledged, and so recorded.
Decide(input, written, shadow) ==
  /\ source' = input.src
  /\ shutBy' = input.shut
  /\ verdict' = [c \in Circuit |-> Asked(c, input)]
  /\ gate' = [c \in Circuit |->
       LET g == Controlled(c, input)
           r == IF c \in written THEN GateRecord(g, Commanded(c, input)) ELSE g
       IN IF shadow THEN Look(r) ELSE r]

\* Every valve is written.  Once a minute the energy shadow, which runs last,
\* asks the gate about every circuit again.
FullCycle ==
  \E input \in Inputs :
    /\ \E shadow \in BOOLEAN : Decide(input, Circuit, shadow)
    /\ out' = [c \in Circuit |-> Commanded(c, input)]
    /\ flow' = [c \in Circuit |-> Flowing(c, out')]
    /\ Wrote(Circuit)
    /\ ShutUnseen({})

\* failsafe: whatever valves it can write are opened, and nothing is recorded.
GateFailsafe(stored, positions) ==
  \E opened \in SUBSET Circuit :
    /\ out' = [c \in Circuit |-> IF c \in opened THEN "open" ELSE positions[c]]
    /\ flow' = [c \in Circuit |-> Flowing(c, out')]
    /\ Wrote(stored \cup opened)

\* A write fails, of one of these valves or of an output heatctl does not own:
\* the exception ends the cycle, and the valves after it are not written.  The
\* one that failed may have been stored all the same.
AbortedCycle ==
  \E input \in Inputs, written, stored \in SUBSET Circuit, shadow \in BOOLEAN :
    /\ stored = written \/ (Lossy /\ \E failed \in Circuit :
                                        stored = written \cup {failed})
    /\ shadow => written = Circuit
    /\ Decide(input, written, shadow)
    /\ GateFailsafe(stored, [c \in Circuit |->
                           IF c \in stored THEN Commanded(c, input) ELSE out[c]])
    /\ ShutUnseen({c \in stored : Commanded(c, input) = "shut"})

\* Inputs are stale: the cycle is skipped for the failsafe.
StaleCycle ==
  /\ gate' = [c \in Circuit |-> GateAged(gate[c])]
  /\ verdict' = NoVerdict
  /\ GateFailsafe({}, out)
  /\ ShutUnseen({})
  /\ UNCHANGED <<source, shutBy>>

----------------------------------------------------------------------------
(* The coupler: its watchdog expires and zeroes the outputs *)

Expire ==
  /\ sinceWrite = Trip
  /\ out' = [c \in Circuit |-> "shut"]
  /\ flow' = [c \in Circuit |-> 0]
  /\ verdict' = NoVerdict
  /\ UNCHANGED <<gate, source, shutBy, sinceWrite>>
  /\ ShutUnseen(Circuit)

GateNext == FullCycle \/ AbortedCycle \/ StaleCycle \/ Expire

\* The loop never stops, and the coupler answers a whole cycle now and then.
GateFairness == SF_gateVars(FullCycle)

GateSpec == GateInit /\ [][GateNext]_gateVars
GateFairSpec == GateSpec /\ GateFairness

----------------------------------------------------------------------------
(* Properties *)

Moving(c) == out[c] = "open" /\ Older(flow[c], Settle) = Settle

\* The return loop runs on a reading only if the coupler's output has in fact
\* been open for the settling time, whatever drove, forced, flushed or failed to
\* reach the circuit before - unless the output was shut and the gate was never
\* told (RLGate.action, record_command, the order of Controller.step, failsafe).
MeasuresMovingWater ==
  [][\A c \in Circuit : verdict'[c] = "measure" /\ c \notin behind => Moving(c)]_gateVars

\* "lock-out is the worse of the two because it is silent": a circuit left to
\* its return, and not forced shut, is measured again and again - also when
\* cycles are skipped, end halfway, or the coupler zeroes its outputs.
NoLockOut ==
  \A c \in Circuit :
    <>[](source[c] = "return" /\ c \notin shutBy) => []<>(verdict[c] = "measure")

(* What the documentation says, and the code does not keep *)

\* rl_gate.py's docstring: "RL is valid if flow has been above 0.5 l/min for at
\* least three minutes."
NeverStandingWater ==
  [][\A c \in Circuit : verdict'[c] = "measure" => Moving(c)]_gateVars
=============================================================================
