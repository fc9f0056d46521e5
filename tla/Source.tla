------------------------------- MODULE Source -------------------------------
(***************************************************************************)
(* How the control loop (heatctl/main.py) runs the heat pump: the mode of  *)
(* the plant and the power request (Demand), the water's setpoint          *)
(* (WaterSetpoint), the energy model at the end of a cycle, and the unit's *)
(* registers, which the panel, the capacity loop and commands change too.  *)
(*                                                                         *)
(* Steps are the stretches of a cycle between awaits; MQTT commands run in *)
(* between.  The unit's registers are read at once here, what the cache    *)
(* between does is the subject of HeatPump and CompressorGuard.            *)
(***************************************************************************)
EXTENDS Demand, WaterSetpoint

CONSTANTS
  Install,     \* the installations, see TypeOK
  Deviation,   \* deviations of the house, see Demand
  Limit,       \* supply limits of cooling, or None
  Setpoint,    \* what the registers may be set to by other hands
  Off,         \* COOLING_OFF_C, above every cooling setpoint
  Every        \* _energy_every

ASSUME SourceAssumption ==
  /\ Install \subseteq
       [auto : BOOLEAN,            \* source_demand.auto_mode
        powers : BOOLEAN,          \* source_demand.enabled
        trims : BOOLEAN,           \* water_setpoint.enabled
        seed : Mode,               \* control.mode
        ordered : SUBSET Mode,     \* modes that are commanded
        balances : SUBSET {-1, 0, 1},   \* excesses the energy model may find
        wishes : SUBSET Int]       \* house targets it may find, half degrees
  /\ Deviation \subseteq Int \cup {None}
  /\ Limit \subseteq Nat \cup {None} /\ Setpoint \subseteq Nat
  /\ Off \in Nat /\ Every \in Nat \ {0}
  /\ \A v \in Setpoint : v < Off

VARIABLES
  install,     \* the installation, one of Install
  phase,       \* where the control loop is, see TypeOK
  cycle,       \* _cycle, modulo Every
  excess,      \* _last_house_excess_wh
  seen,        \* HeatPump._config_seen
  reg,         \* the two setpoint registers of the unit
  unitMode,    \* its mode register
  power,       \* its power bit
  fault,       \* for the properties: the last step was a disturbance
  agreed,      \* ... age of the last verdict for anything but a season
  held         \* ... age of the last wish that was not up, not down

unit == <<reg, unitMode, power>>
loopMemory == <<cycle, excess, seen>>
loopVars == <<phase, loopMemory>>
ghosts == <<agreed, held>>
vars == <<install, demandVars, waterVars, loopVars, unit, fault, ghosts>>

Way == {"up", "down"}
Load == {"idle", "some", "saturated"}   \* the widest demand of a room

TypeOK ==
  /\ DemandTypeOK /\ WaterTypeOK
  /\ install \in Install
  /\ phase \in {"sleep", "awake", "power", "trim", "publish", "energy", "target", "sync"}
  /\ cycle \in 0..(Every - 1)
  /\ excess \in {-1, 0, 1, None}
  /\ seen \in BOOLEAN
  /\ reg \in [Water -> Int] /\ unitMode \in Season /\ power \in BOOLEAN
  /\ fault \in BOOLEAN
  /\ agreed \in [Season -> Age(Dwell)]
  /\ held \in [Way -> Age(Confirm + 1)]
  /\ phase = "publish" <=> target # None

\* The memory of a new process.
Fresh(seed) ==
  /\ DemandInit(seed) /\ WaterInit
  /\ phase = "sleep" /\ cycle = 0 /\ excess = None /\ seen = FALSE
  /\ agreed = [m \in Season |-> 0]
  /\ held = [w \in Way |-> Confirm + 1]

Init ==
  /\ install \in Install
  /\ Fresh(install.seed)
  /\ reg \in {r \in [Water -> Setpoint] : \A m \in Water : r[m] = Low[m]}
  /\ unitMode = "heating" /\ power = FALSE
  /\ fault = FALSE

Proceed(p) == phase' = p /\ fault' = FALSE

\* A write to the unit that is refused or not acknowledged: the cycle goes on.
Refused(p) == phase' = p /\ fault' = TRUE /\ UNCHANGED unit

\* What someone else does to a register or the mode makes earlier wishes void.
Forgiven == [w \in Way |-> Confirm + 1]

----------------------------------------------------------------------------
(* The control cycle *)

\* The time between two cycles.
Tick ==
  /\ phase = "sleep"
  /\ candAge' = Older(candAge, Dwell)
  /\ since' = Older(since, LongestHold)
  /\ WaterAges
  /\ agreed' = [m \in Season |-> Older(agreed[m], Dwell)]
  /\ held' = [w \in Way |-> Older(held[w], Confirm + 1)]
  /\ Proceed("awake")
  /\ UNCHANGED <<install, mode, cand, decided, on, cycle, excess, seen, unit>>

\* The cycle begins: the mode, and whether the source is to run.
Decide ==
  /\ phase = "awake"
  /\ \E dev \in Deviation, complete \in BOOLEAN :
       /\ phase' = "power" /\ fault' = (dev = None)
       /\ PickMode(install.auto, dev, complete, excess)
       /\ agreed' = IF Abstains(install.auto, dev) THEN agreed
                    ELSE [m \in Season |->
                            IF ModeWanted(dev, excess) = m THEN agreed[m] ELSE 0]
  /\ HoldOn(mode' # "off")
  /\ held' = IF mode' = mode THEN held ELSE Forgiven
  /\ UNCHANGED <<install, waterVars, cycle, excess, seen, unit>>

\* _hold_source_power; no write without a read, and none that changes nothing.
PowerStands == ~install.powers \/ ~seen \/ power = on
HoldPower ==
  /\ phase = "power"
  /\ \/ PowerStands /\ Proceed("trim") /\ UNCHANGED unit
     \/ ~PowerStands /\ power' = on /\ Proceed("trim") /\ UNCHANGED <<reg, unitMode>>
     \/ ~PowerStands /\ Refused("trim")
  /\ UNCHANGED <<install, demandVars, waterVars, cycle, excess, seen, ghosts>>

\* Which way the direct law wants the register to go, None if it may stay.
Wanted(limit, current) ==
  IF IsHappy(mode, limit, current) THEN None
  ELSE IF Wish(mode, limit) > current THEN "up" ELSE "down"

\* _trim_water_setpoint up to its first await, with the deviation, the widest
\* demand and the state of the slab of this cycle; a stopped compressor is
\* none of its business.
Trim ==
  LET current == IF mode \in Water /\ seen THEN reg[mode] ELSE None
      works == install.trims /\ ~(mode = "cooling" /\ current = Off)
      judges == mode \in Water /\ current # None /\ lastChange # None
  IN  /\ phase = "trim"
      /\ \/ ~works /\ UNCHANGED <<waterVars, held>>
         \/ /\ works
            /\ \E dev \in Deviation, load \in Load, over \in BOOLEAN, limit \in Limit :
                 /\ WaterStep(mode, dev, load, over, limit, current)
                 /\ held' = IF ~judges THEN held
                            ELSE [w \in Way |->
                                    IF house # None /\ Wanted(limit, current) = w
                                    THEN held[w] ELSE 0]
      /\ Proceed(IF target' = None THEN "energy" ELSE "publish")
      /\ UNCHANGED <<install, demandVars, cycle, excess, seen, unit, agreed>>

\* The register a decision is written to, after the publications: cooling's if
\* that is the mode by now, else the one that was meant.
Register == IF mode = "cooling" THEN "cooling" ELSE target.mode

\* ... and its rest.  A real setpoint may not collide with the sentinel.
WriteSetpoint ==
  /\ phase = "publish"
  /\ target' = None
  /\ \/ /\ Register # "cooling" \/ target.val < Off
        /\ reg' = [reg EXCEPT ![Register] = target.val]
        /\ Proceed("energy") /\ UNCHANGED <<unitMode, power>>
     \/ Refused("energy")
  /\ UNCHANGED <<install, demandVars, house, pending, lastChange, cycle, excess,
                 seen, ghosts>>

\* house_excess_wh needs a room whose return has been measured;
\* house_slab_target only the weather and the areas of the rooms.
HouseExcess(outdoor, measured, b) == IF outdoor /\ measured THEN b ELSE None
HouseTarget(outdoor, x) == IF outdoor THEN [x |-> x, age |-> 0] ELSE house

\* _publish_energy_shadow, what the next cycles decide upon: the excess ...
ObserveExcess ==
  /\ phase = "energy"
  /\ \/ cycle # 0 /\ UNCHANGED excess /\ Proceed("sync")
     \/ /\ cycle = 0 /\ Proceed("target")
        /\ \E outdoor, measured \in BOOLEAN, b \in install.balances :
             excess' = HouseExcess(outdoor, measured, b)
  /\ UNCHANGED <<install, demandVars, waterVars, cycle, seen, unit, ghosts>>

\* ... and, after publications, the target.  An excess tells that the weather is known.
ObserveHouseTarget ==
  /\ phase = "target" /\ Proceed("sync")
  /\ \/ install.wishes = {} /\ UNCHANGED house
     \/ \E x \in install.wishes, outdoor \in BOOLEAN :
          (excess # None => outdoor) /\ house' = HouseTarget(outdoor, x)
  /\ UNCHANGED <<install, demandVars, pending, lastChange, target, loopMemory, unit,
                 ghosts>>

EnergyShadow == ObserveExcess \/ ObserveHouseTarget

\* sync_mode: an off plant leaves the unit's mode alone.
ModeStands == mode = "off" \/ ~seen \/ unitMode = mode

\* _sync_pump_mode, and the end of the cycle.
SyncPumpMode ==
  /\ phase = "sync"
  /\ \/ ModeStands /\ Proceed("sleep") /\ UNCHANGED unit
     \/ ~ModeStands /\ unitMode' = mode /\ Proceed("sleep") /\ UNCHANGED <<reg, power>>
     \/ ~ModeStands /\ Refused("sleep")
  /\ cycle' = (cycle + 1) % Every
  /\ UNCHANGED <<install, demandVars, waterVars, excess, seen, ghosts>>

\* A cycle without sensors ends at once, and an exception ends it anywhere.
Fails ==
  /\ phase # "sleep"
  /\ phase' = "sleep" /\ fault' = TRUE
  /\ target' = None
  /\ UNCHANGED <<install, demandVars, house, pending, lastChange, cycle, excess, seen,
                 unit, ghosts>>

----------------------------------------------------------------------------
(* Everything else *)

\* The poll's first complete read of the unit.
FirstRead ==
  /\ ~seen /\ seen' = TRUE
  /\ fault' = FALSE
  /\ UNCHANGED <<install, demandVars, waterVars, phase, cycle, excess, unit, ghosts>>

\* on_command "mode", between two steps of the loop.
SetMode(m) ==
  /\ m \in install.ordered \ {mode}
  /\ mode' = m
  /\ fault' = TRUE
  /\ held' = Forgiven
  /\ UNCHANGED <<install, cand, candAge, decided, holdVars, waterVars, loopVars, unit,
                 agreed>>

\* An hp/set command, which is a task of its own, sets a setpoint, the mode or the
\* power (_hp_command); so does the panel, and the capacity loop the setpoint.
OtherHands ==
  /\ \/ /\ install.trims
        /\ \E m \in Water, v \in Setpoint \cup {Off} :
             /\ v # reg[m] /\ (v = Off => m = "cooling")
             /\ reg' = [reg EXCEPT ![m] = v]
        /\ UNCHANGED <<unitMode, power>>
     \/ unitMode' \in Season \ {unitMode} /\ UNCHANGED <<reg, power>>
     \/ install.powers /\ power' = ~power /\ UNCHANGED <<reg, unitMode>>
  /\ fault' = TRUE
  /\ held' = Forgiven
  /\ UNCHANGED <<install, demandVars, waterVars, loopVars, agreed>>

\* The process dies and starts again; the unit keeps its registers.
Restart ==
  /\ mode' = install.seed
  /\ cand' = None /\ candAge' = 0 /\ decided' = FALSE
  /\ on' = FALSE /\ since' = None
  /\ house' = None /\ pending' = None /\ lastChange' = None /\ target' = None
  /\ phase' = "sleep" /\ cycle' = 0 /\ excess' = None /\ seen' = FALSE
  /\ fault' = TRUE
  /\ agreed' = [m \in Season |-> 0] /\ held' = Forgiven
  /\ UNCHANGED <<install, unit>>

----------------------------------------------------------------------------
Loop ==
  \/ Tick \/ Decide \/ HoldPower \/ Trim \/ WriteSetpoint
  \/ EnergyShadow \/ SyncPumpMode \/ Fails

Next ==
  \/ Loop \/ FirstRead \/ OtherHands \/ Restart
  \/ \E m \in Mode : SetMode(m)

Spec == Init /\ [][Next]_vars

\* The loop keeps cycling and the poll reads the unit after a start.
FairSpec == Spec /\ WF_vars(Loop) /\ WF_vars(FirstRead)

----------------------------------------------------------------------------
(* Properties *)

\* The picker changes the mode only on the first complete set of rooms after a
\* start, or when no verdict of the whole dwell was for anything but the new
\* mode - whatever commands, blind cycles and operator's offs the dwell saw.
SwitchIsSettled ==
  [][phase = "awake" /\ phase' = "power" /\ mode' # mode
       => /\ mode # "off" /\ install.auto
          /\ (~decided /\ decided') \/ agreed[mode'] = Dwell]_vars

\* A house that is seen, and whose slab leaves no doubt, gets its season.
SeasonFollows ==
  \A m \in Season :
    <>[](/\ ~fault /\ install.auto /\ mode # "off"
         /\ excess # None /\ ModeWanted(0, excess) = m)
      => <>[](mode = m)

\* Once the mode rests and the unit answers, the unit follows: powered unless
\* the operator said off, and in the plant's mode.
UnitFollows ==
  \A m \in Mode :
    <>[](~fault /\ install.powers /\ mode = m)
      => <>[](power = (m # "off") /\ (m # "off" => unitMode = m))

\* The direct law never moves the register one way when one of its own verdicts
\* of the confirmation time was against that, unless mode or register were
\* changed by somebody else since.
ConfirmedWish ==
  [][phase = "trim" /\ phase' = "publish" /\ house # None
       => held[IF target'.val > reg[mode] THEN "up" ELSE "down"] = Confirm + 1]_vars

\* A setpoint outside its bounds - left by a hand at the panel, a resume of the
\* capacity loop, or a decision that was made for the other mode and written
\* after a mode command - is brought back once there is a target to go by.
SetpointRepaired ==
  \A m \in Water :
    <>[](~fault /\ install.trims /\ mode = m /\ house # None /\ reg[m] # Off)
      => <>[](reg[m] \in Low[m]..High[m])
=============================================================================
