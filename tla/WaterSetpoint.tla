--------------------------- MODULE WaterSetpoint ---------------------------
(***************************************************************************)
(* SetpointController (heatctl/setpoint.py): the setpoint of the heat      *)
(* pump's water.  The direct law writes the house's slab target, when it   *)
(* is fresh, once a wish has kept its direction for a while and the last   *)
(* change is old enough; without one the setpoint is walked in steps.      *)
(*                                                                         *)
(* Setpoints are whole degrees, the direct law's target is in half ones.   *)
(***************************************************************************)
EXTENDS Ages

CONSTANTS
  Low, High,      \* cooling_min_c ... heating_max_c, by mode
  Hysteresis,     \* 0.5 + hysteresis_c, in half degrees: "closer than"
  Confirm,        \* confirm_s
  MinWrite,       \* min_write_interval_s
  ShortWalk,      \* saturated_interval_s
  LongWalk,       \* interval_s
  TargetMax       \* target_max_age_s

Water == {"heating", "cooling"}
LongestWait == IF MinWrite > LongWalk THEN MinWrite ELSE LongWalk

ASSUME WaterAssumption ==
  /\ Low \in [Water -> Nat] /\ High \in [Water -> Nat]
  /\ \A m \in Water : Low[m] <= High[m]
  /\ {Hysteresis, Confirm, MinWrite, ShortWalk, LongWalk, TargetMax} \subseteq Nat
  /\ ShortWalk <= LongWalk

VARIABLES
  house,       \* _house and the age of _house_t, None when there is none
  pending,     \* _pending: the wish and the age of its direction
  lastChange,  \* age of _last_change
  target       \* the decision of this cycle and its mode, None for "stay"

waterVars == <<house, pending, lastChange, target>>

WaterTypeOK ==
  /\ house = None \/ house \in [x : Int, age : Age(TargetMax)]
  /\ pending = None \/ pending \in [val : Int, age : Age(Confirm)]
  /\ lastChange \in Age(LongestWait) \cup {None}
  /\ target = None \/ target \in [val : Int, mode : Water]

WaterInit == house = None /\ pending = None /\ lastChange = None /\ target = None

\* A cycle's time passes.  A target past its age is as good as none.
WaterAges ==
  /\ house' = IF house = None \/ house.age = TargetMax THEN None
              ELSE [house EXCEPT !.age = @ + 1]
  /\ pending' = IF pending = None THEN None
                ELSE [pending EXCEPT !.age = Older(@, Confirm)]
  /\ lastChange' = Older(lastChange, LongestWait)
  /\ UNCHANGED target

----------------------------------------------------------------------------
\* _bounds and _clamp: in cooling the supply limit raises the lower one.
Lowest(m, limit) ==
  IF m = "cooling" /\ limit # None /\ limit > Low[m] THEN limit ELSE Low[m]
Highest(m, limit) ==
  IF Lowest(m, limit) > High[m] THEN Lowest(m, limit) ELSE High[m]
Clamp(m, limit, v) ==
  IF v < Lowest(m, limit) THEN Lowest(m, limit)
  ELSE IF v > Highest(m, limit) THEN Highest(m, limit) ELSE v

\* Python's round, of half degrees: the even one of two.
RoundHalf(x) == IF x % 2 = 0 \/ (x \div 2) % 2 = 0 THEN x \div 2 ELSE x \div 2 + 1

\* Only a setpoint within its bounds is held by the hysteresis.
IsNear(x, current) ==
  2 * current - x < Hysteresis /\ x - 2 * current < Hysteresis
HeldByTheHysteresis(m, limit, x, current) == IsNear(x, current)   \* mutant
Held(m, limit, x, current) ==
  current \in Lowest(m, limit)..Highest(m, limit) /\ IsNear(x, current)

\* How long the wish has had its direction, seen from the present setpoint.
WaitedWhatever(up, current) == IF pending = None THEN 0 ELSE pending.age   \* mutant
Waited(up, current) ==
  IF pending # None /\ (pending.val > current) = up THEN pending.age ELSE 0

Stays == target' = None /\ UNCHANGED lastChange
Moves(m, v) == target' = [val |-> v, mode |-> m] /\ lastChange' = 0

\* _direct
Wish(m, limit) == Clamp(m, limit, RoundHalf(house.x))
IsHappy(m, limit, current) ==
  Wish(m, limit) = current \/ Held(m, limit, house.x, current)
Direct(m, limit, current) ==
  LET want == Wish(m, limit)
      waited == Waited(want > current, current)
  IN  \/ IsHappy(m, limit, current) /\ pending' = None /\ Stays
      \/ /\ ~IsHappy(m, limit, current)
         /\ waited < Confirm \/ lastChange < MinWrite
         /\ pending' = [val |-> want, age |-> waited]
         /\ Stays
      \/ /\ ~IsHappy(m, limit, current)
         /\ waited >= Confirm /\ lastChange >= MinWrite
         /\ pending' = None
         /\ Moves(m, want)

\* The walk: a step towards more effect when the house wants more and the
\* valves are wide open, one back when it does not and the water is stronger
\* than it needs to be; never against the direction the step was meant for.
\* over is SetpointController.overcharged.
Walk(m, dev, load, over, limit, current) ==
  LET more == IF m = "heating" THEN 1 ELSE -1
      wantsMore == dev # None /\ dev * more >= 1
      overshoot == dev # None /\ dev * more <= -1
      saturated == wantsMore /\ load = "saturated"
      delta == IF saturated THEN more
               ELSE IF dev # None /\ ~wantsMore /\ (load = "idle" \/ overshoot \/ over)
               THEN -more ELSE 0
      to == Clamp(m, limit, current + delta)
      steps == /\ lastChange >= (IF saturated THEN ShortWalk ELSE LongWalk)
               /\ (to - current) * delta > 0
  IN  /\ pending' = None
      /\ IF steps THEN Moves(m, to) ELSE Stays

\* step: m is the plant's mode, current None when the register is not known.
WaterStep(m, dev, load, over, limit, current) ==
  /\ UNCHANGED house
  /\ \/ /\ m \notin Water \/ current = None
        /\ target' = None /\ UNCHANGED <<pending, lastChange>>
     \/ /\ m \in Water /\ current # None /\ lastChange = None
        /\ target' = None /\ lastChange' = 0 /\ UNCHANGED pending
     \/ /\ m \in Water /\ current # None /\ lastChange # None
        /\ IF house # None THEN Direct(m, limit, current)
           ELSE Walk(m, dev, load, over, limit, current)
=============================================================================
