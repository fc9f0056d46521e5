------------------------------ MODULE FlowFloor ------------------------------
(***************************************************************************)
(* What the valves are told to do before safety has its say: Distributor   *)
(* (heatctl/distribution.py) shares the rooms' demands out between the     *)
(* opening threshold and full, and DemandController.enforce_flow_floor     *)
(* (heatctl/demand.py) raises the result until the pump has its minimum    *)
(* flow, one step per iteration of its loops.                              *)
(*                                                                         *)
(* Openings are whole numbers of a unit so fine that what the floor shares *)
(* out is divided exactly - a step that would leave a remainder is not     *)
(* taken, and then nothing is - so that the tolerance 1e-9 of the code is  *)
(* not needed.  A demand is commanded for every circuit.                   *)
(***************************************************************************)
EXTENDS Integers, FiniteSets, FiniteSetsExt

CONSTANTS
  Valve,       \* every circuit with a valve
  Unfitted,    \* circuits without an actuator: open pipe
  Full,        \* distribution.full_open_pct
  Threshold,   \* distribution.open_threshold_pct: no flow below it
  Eps,         \* distribution.eps
  PeakStep,    \* distribution.max_peak_step_per_cycle
  Grain,       \* what a distributed opening is rounded to (0.1 %)
  MinOpen,     \* source_demand.min_open_pct
  TieK,        \* DemandController.TIE_K
  Unknown,     \* the need of a room without a temperature
  Level,       \* the demands to try
  Need         \* the needs to try

\* Full is configured in steps of what openings are rounded to, or rounding
\* could exceed it.
ASSUME FloorAssumption ==
  /\ IsFiniteSet(Valve) /\ Valve # {} /\ Unfitted \subseteq Valve
  /\ Full \in Nat /\ Threshold \in 0..Full
  /\ Eps \in Nat \ {0} /\ PeakStep \in Nat
  /\ Grain \in Nat \ {0} /\ Full % Grain = 0
  /\ MinOpen \in 0..Full /\ TieK \in Nat
  /\ Unknown \notin Int
  /\ Level \subseteq Nat /\ Need \subseteq Int \cup {Unknown}

Fitted == Valve \ Unfitted
Total(f, S) == MapThenSumSet(LAMBDA v : f[v], S)

VARIABLES
  peak,        \* Distributor._peak, Unknown before the first cycle
  need,        \* how much the fitted rooms want the mode, Unknown between cycles
  commanded,   \* what the distributor makes of the demands
  driven,      \* out: what the flow floor has made of that so far
  stage,       \* where enforce_flow_floor is
  group,       \* the circuits raised together: free in phase 1
  rest,        \* the satisfied rooms whose turn is yet to come
  deficit      \* the opening that is still missing

floorVars == <<peak, need, commanded, driven, stage, group, rest, deficit>>

Opening == 0..Full
FloorTypeOK ==
  /\ stage \in {"idle", "floor", "willing", "satisfied", "done"}
  /\ peak \in Nat \cup {Unknown}
  /\ deficit \in Nat /\ group \subseteq Fitted /\ rest \subseteq Fitted
  /\ stage # "idle" => /\ need \in [Fitted -> Int \cup {Unknown}]
                       /\ commanded \in [Valve -> Opening]
                       /\ driven \in [Valve -> Opening]

FloorInit ==
  /\ peak = Unknown /\ need = Unknown /\ commanded = Unknown /\ driven = Unknown
  /\ stage = "idle" /\ group = {} /\ rest = {} /\ deficit = 0

----------------------------------------------------------------------------
(* Distribution *)

\* Distributor._peak follows the largest demand, a bounded step per cycle.
Peak(old, raw) ==
  LET new == Max({raw[v] : v \in Valve})
  IN  IF old = Unknown THEN new
      ELSE IF new > old THEN Min({new, old + PeakStep})
                   ELSE Max({new, old - PeakStep})

\* The nearest multiple of Grain, the even one of two.
Rounded(a) ==
  LET q == a \div Grain
      r == 2 * (a % Grain)
  IN  Grain * (IF r > Grain \/ (r = Grain /\ q % 2 = 1) THEN q + 1 ELSE q)

\* Each circuit's share of the span, relative to the peak demand.
Distribute(raw, scale) ==
  [v \in Valve |->
     Rounded(Threshold + Min({Full - Threshold,
                ((raw[v] + Eps) * (Full - Threshold)) \div (scale + Eps)}))]

\* What a cycle makes of the demands of the rooms.
Shares ==
  /\ stage = "idle" /\ stage' = "floor"
  /\ \E raw \in [Valve -> Level], wants \in [Fitted -> Need] :
       /\ need' = wants /\ peak' = Peak(peak, raw)
       /\ commanded' = Distribute(raw, peak') /\ driven' = commanded'
  /\ UNCHANGED <<group, rest, deficit>>

----------------------------------------------------------------------------
(* The flow floor *)

\* The sum of fitted openings at which the mean of all circuits is MinOpen.
FloorTargetFittedOnly == MinOpen * Cardinality(Fitted)   \* mutant
FloorTarget == MinOpen * Cardinality(Valve) - Full * Cardinality(Unfitted)

\* Rooms that still want the mode, or of which nothing is known.
Willing(wants) == {v \in Fitted : wants[v] = Unknown \/ wants[v] > 0}
Satisfied(wants) == Fitted \ Willing(wants)

\* Those of them that can be raised any further.
NotYetFullKeepsAll(out, circuits) == circuits   \* mutant
NotYetFull(out, circuits) == {v \in circuits : out[v] < Full}

\* The early returns: nothing to raise, or not enough whatever is raised.
FloorMet ==
  /\ stage = "floor" /\ stage' = "done"
  /\ Fitted = {} \/ FloorTarget <= Total(driven, Fitted)
  /\ UNCHANGED <<peak, need, commanded, driven, group, rest, deficit>>

FloorUnreachable ==
  /\ stage = "floor" /\ stage' = "done"
  /\ Fitted # {} /\ FloorTarget > Total(driven, Fitted)
  /\ FloorTarget >= Full * Cardinality(Fitted)
  /\ driven' = [v \in Valve |-> IF v \in Fitted THEN Full ELSE driven[v]]
  /\ UNCHANGED <<peak, need, commanded, group, rest, deficit>>

FloorShort ==
  /\ stage = "floor" /\ stage' = "willing"
  /\ Fitted # {} /\ FloorTarget > Total(driven, Fitted)
  /\ FloorTarget < Full * Cardinality(Fitted)
  /\ deficit' = FloorTarget - Total(driven, Fitted)
  /\ group' = NotYetFull(driven, Willing(need))
  /\ UNCHANGED <<peak, need, commanded, driven, rest>>

\* Phase 1.  A circuit takes its part of the deficit in proportion to its
\* flow, or they all take the same when none of them has any.
Weight(out, free) ==
  LET flow == [v \in free |-> IF out[v] > Threshold THEN out[v] - Threshold ELSE 0]
  IN  IF Total(flow, free) = 0 THEN [v \in free |-> 1] ELSE flow

\* The circuits that their part would open beyond Full.
Clipped(out, free, short) ==
  LET weight == Weight(out, free)
  IN  {v \in free : weight[v] * short > (Full - out[v]) * Total(weight, free)}

\* They stop at Full and leave their excess to the others.
WillingClip ==
  LET clipped == Clipped(driven, group, deficit)
  IN  /\ stage = "willing" /\ deficit > 0 /\ clipped # {}
      /\ driven' = [v \in Valve |-> IF v \in clipped THEN Full ELSE driven[v]]
      /\ group' = group \ clipped
      /\ deficit' = deficit - Total([v \in clipped |-> Full - driven[v]], clipped)
      /\ UNCHANGED <<peak, need, commanded, stage, rest>>

WillingShare ==
  LET weight == Weight(driven, group)
      total == Total(weight, group)
  IN  /\ stage = "willing" /\ deficit > 0
      /\ group # {} /\ Clipped(driven, group, deficit) = {}
      /\ \A v \in group : (weight[v] * deficit) % total = 0
      /\ driven' = [v \in Valve |-> IF v \in group
                                    THEN driven[v] + (weight[v] * deficit) \div total
                                    ELSE driven[v]]
      /\ deficit' = 0
      /\ UNCHANGED <<peak, need, commanded, stage, group, rest>>

WillingEnd ==
  /\ stage = "willing" /\ (group = {} \/ deficit = 0)
  /\ stage' = "satisfied"
  /\ group' = {} /\ rest' = NotYetFull(driven, Satisfied(need))
  /\ UNCHANGED <<peak, need, commanded, driven, deficit>>

\* Phase 2.  The satisfied rooms to raise together: the neediest and those
\* within TieK of it.
FirstGroupEverybody(wants, left) == left   \* mutant
FirstGroup(wants, left) == {v \in left : \A w \in left : wants[w] - wants[v] <= TieK}

NextGroup ==
  /\ stage = "satisfied" /\ deficit > 0 /\ group = {} /\ rest # {}
  /\ group' = FirstGroup(need, rest) /\ rest' = rest \ FirstGroup(need, rest)
  /\ UNCHANGED <<peak, need, commanded, driven, stage, deficit>>

\* Equal steps for a group: until the first of it is full, or nothing is missing.
RaiseGroup ==
  LET size == Cardinality(group)
      room == Min({Full - driven[v] : v \in group})
      step == IF room * size <= deficit THEN room ELSE deficit \div size
  IN  /\ stage = "satisfied" /\ deficit > 0 /\ group # {}
      /\ room * size <= deficit \/ deficit % size = 0
      /\ driven' = [v \in Valve |-> IF v \in group THEN driven[v] + step ELSE driven[v]]
      /\ deficit' = deficit - step * size
      /\ group' = NotYetFull(driven', group)
      /\ UNCHANGED <<peak, need, commanded, stage, rest>>

SatisfiedEnd ==
  /\ stage = "satisfied" /\ (deficit = 0 \/ (group = {} /\ rest = {}))
  /\ stage' = "done"
  /\ UNCHANGED <<peak, need, commanded, driven, group, rest, deficit>>

\* The cycle goes on with safety; the next one starts afresh.
Rests ==
  /\ stage = "done" /\ stage' = "idle"
  /\ need' = Unknown /\ commanded' = Unknown /\ driven' = Unknown
  /\ group' = {} /\ rest' = {} /\ deficit' = 0
  /\ UNCHANGED peak

EnforceFlowFloor ==
  \/ FloorMet \/ FloorUnreachable \/ FloorShort
  \/ WillingClip \/ WillingShare \/ WillingEnd
  \/ NextGroup \/ RaiseGroup \/ SatisfiedEnd

FloorNext == Shares \/ EnforceFlowFloor \/ Rests

----------------------------------------------------------------------------
(* Properties *)

PumpFlow(out) == Total(out, Fitted) + Full * Cardinality(Unfitted)

\* The floor only ever opens valves, and leaves the pump with exactly the flow
\* it needs, an unfitted circuit counting as open pipe, or with what there was
\* if that is more: whichever rooms take it and in whatever order they clip.
FlowFloorKept ==
  stage = "done" =>
    /\ \A v \in Valve : commanded[v] <= driven[v] /\ driven[v] <= Full
    /\ PumpFlow(driven) = Max({MinOpen * Cardinality(Valve), PumpFlow(commanded)})

\* Who takes the extra flow: a room at or past its setpoint only when every
\* room that wants the mode is wide open, and so is every satisfied room that
\* is clearly needier than it; and rooms that want the mode keep their order.
SatisfiedComeLast ==
  stage = "done" =>
    \A v, w \in Fitted :
      /\ v \in Satisfied(need) /\ driven[v] > commanded[v]
           => \/ driven[w] = Full
              \/ w \in Satisfied(need) /\ need[w] <= need[v] + TieK
      /\ {v, w} \subseteq Willing(need) /\ commanded[v] <= commanded[w]
           => driven[v] <= driven[w]

\* The loops end, and with them the cycle that valves, failsafe and telemetry
\* wait for: an iteration that leaves anything missing leaves fewer circuits to
\* raise, since whatever is clipped or full leaves the loop that raised it.
FloorProgresses ==
  [][stage' = stage =>
       \/ deficit' = 0
       \/ rest' = rest /\ group' \subseteq group /\ group' # group
       \/ rest' \subseteq rest /\ rest' # rest]_floorVars
=============================================================================
