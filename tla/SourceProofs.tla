---------------------------- MODULE SourceProofs ----------------------------
(***************************************************************************)
(* Proofs about Source, for any installations, bounds and times: the types,*)
(* and that neither a change of the mode nor a move of the setpoint rests  *)
(* on a verdict that another one of its waiting time contradicted.  Both   *)
(* follow from an invariant that relates the clock the code keeps to the   *)
(* age of the last contradiction.                                          *)
(***************************************************************************)
EXTENDS Source, TLAPS

LEMMA OlderIsAge ==
  ASSUME NEW cap \in Nat, NEW age \in Age(cap)
  PROVE  Older(age, cap) \in Age(cap) /\ Older(age, cap) >= age
  BY NoneAssumption DEF Older, Age

LEMMA OlderIsAgeOrNone ==
  ASSUME NEW cap \in Nat, NEW age \in Age(cap) \cup {None}
  PROVE  Older(age, cap) \in Age(cap) \cup {None}
  BY NoneAssumption DEF Older, Age

\* A smaller age stays the smaller one, also under a cap that is one larger.
LEMMA OlderKeepsOrder ==
  ASSUME NEW cap \in Nat, NEW a \in Age(cap), NEW b \in Age(cap), a <= b
  PROVE  Older(a, cap) <= Older(b, cap)
  BY NoneAssumption DEF Older, Age

LEMMA OlderKeepsGap ==
  ASSUME NEW cap \in Nat, NEW a \in Age(cap), NEW b \in Age(cap + 1), a < b
  PROVE  Older(a, cap) < Older(b, cap + 1)
  BY NoneAssumption DEF Older, Age

LEMMA Times ==
  /\ LongestHold \in Nat /\ LongestWait \in Nat /\ Confirm + 1 \in Nat
  /\ Dwell \in Nat /\ Confirm \in Nat /\ TargetMax \in Nat
  BY DemandAssumption, WaterAssumption DEF LongestHold, LongestWait

LEMMA SourceFields ==
  /\ \A i \in Install : /\ i.seed \in Mode /\ i.ordered \subseteq Mode
                         /\ i.balances \subseteq {-1, 0, 1} /\ i.wishes \subseteq Int
  /\ Deviation \subseteq Int \cup {None} /\ Limit \subseteq Nat \cup {None}
  /\ Setpoint \subseteq Nat /\ Off \in Nat /\ Every \in Nat \ {0}
<1>1. ASSUME NEW i \in Install
      PROVE  /\ i.seed \in Mode /\ i.ordered \subseteq Mode
             /\ i.balances \subseteq {-1, 0, 1} /\ i.wishes \subseteq Int
  <2>1. i \in [auto : BOOLEAN, powers : BOOLEAN, trims : BOOLEAN, seed : Mode,
               ordered : SUBSET Mode, balances : SUBSET {-1, 0, 1},
               wishes : SUBSET Int]
    BY SourceAssumption
  <2> QED
    BY <2>1
<1> QED
  BY <1>1, SourceAssumption

\* None is no season: it is a candidate of its own.
LEMMA NoneIsNoSeason == None \notin Season
  BY DemandAssumption DEF Mode

----------------------------------------------------------------------------
(* Types *)

LEMMA InitTyped == Init => TypeOK
<1> SUFFICES ASSUME Init PROVE TypeOK
  OBVIOUS
<1>1. install \in Install /\ install.seed \in Mode
  BY SourceFields DEF Init
<1>2. DemandTypeOK
  <2>1. /\ mode = install.seed /\ cand = None /\ candAge = 0 /\ decided = FALSE
        /\ on = FALSE /\ since = None
    BY DEF Init, Fresh, DemandInit
  <2>2. 0 \in Age(Dwell)
    BY Times DEF Age
  <2> QED
    BY <1>1, <2>1, <2>2 DEF DemandTypeOK
<1>3. WaterTypeOK
  BY DEF Init, Fresh, WaterInit, WaterTypeOK
<1>4. agreed \in [Season -> Age(Dwell)] /\ held \in [Way -> Age(Confirm + 1)]
  <2>1. agreed = [m \in Season |-> 0] /\ held = [w \in Way |-> Confirm + 1]
    BY DEF Init, Fresh
  <2>2. 0 \in Age(Dwell) /\ Confirm + 1 \in Age(Confirm + 1)
    BY Times DEF Age
  <2> QED
    BY <2>1, <2>2
<1>5. reg \in [Water -> Int]
  <2>1. reg \in [Water -> Setpoint] /\ Setpoint \subseteq Int
    BY SourceFields DEF Init
  <2> QED
    BY <2>1
<1>6. /\ phase = "sleep" /\ target = None /\ cycle = 0 /\ excess = None
      /\ seen = FALSE /\ unitMode = "heating" /\ power = FALSE /\ fault = FALSE
  BY DEF Init, Fresh, WaterInit
<1>7. cycle \in 0..(Every - 1) /\ excess \in {-1, 0, 1, None}
  BY <1>6, SourceFields
<1>8. /\ phase \in {"sleep", "awake", "power", "trim", "publish", "energy", "target", "sync"}
      /\ phase = "publish" <=> target # None
  BY <1>6
<1>9. seen \in BOOLEAN /\ unitMode \in Season /\ power \in BOOLEAN /\ fault \in BOOLEAN
  BY <1>6 DEF Season
<1> QED
  BY <1>1, <1>2, <1>3, <1>4, <1>5, <1>7, <1>8, <1>9 DEF TypeOK

\* Time passes over the types.
LEMMA TickTyped == TypeOK /\ Tick => TypeOK'
<1> SUFFICES ASSUME TypeOK, Tick PROVE TypeOK'
  OBVIOUS
<1>1. candAge' \in Age(Dwell)
  BY Times, OlderIsAge DEF TypeOK, DemandTypeOK, Tick
<1>2. since' \in Age(LongestHold) \cup {None}
  BY Times, OlderIsAgeOrNone DEF TypeOK, DemandTypeOK, Tick
<1>3. DemandTypeOK'
  BY <1>1, <1>2 DEF TypeOK, DemandTypeOK, Tick
<1>4. house' = None \/ house' \in [x : Int, age : Age(TargetMax)]
  BY Times, NoneAssumption DEF TypeOK, WaterTypeOK, Tick, WaterAges, Age
<1>5. pending' = None \/ pending' \in [val : Int, age : Age(Confirm)]
  BY Times, OlderIsAge DEF TypeOK, WaterTypeOK, Tick, WaterAges
<1>6. lastChange' \in Age(LongestWait) \cup {None}
  BY Times, OlderIsAgeOrNone DEF TypeOK, WaterTypeOK, Tick, WaterAges
<1>7. WaterTypeOK'
  BY <1>4, <1>5, <1>6 DEF TypeOK, WaterTypeOK, Tick, WaterAges
<1>8. agreed' \in [Season -> Age(Dwell)] /\ held' \in [Way -> Age(Confirm + 1)]
  BY Times, OlderIsAge DEF TypeOK, Tick
<1>9. target' = target
  BY DEF Tick, WaterAges
<1> QED
  BY <1>3, <1>7, <1>8, <1>9 DEF TypeOK, Tick, Proceed, unit

LEMMA DecideTyped == TypeOK /\ Decide => TypeOK'
<1> SUFFICES ASSUME TypeOK, Decide PROVE TypeOK'
  OBVIOUS
<1>1. PICK dev \in Deviation, complete \in BOOLEAN :
        /\ phase' = "power" /\ fault' = (dev = None)
        /\ PickMode(install.auto, dev, complete, excess)
        /\ agreed' = IF Abstains(install.auto, dev) THEN agreed
                     ELSE [m \in Season |->
                             IF ModeWanted(dev, excess) = m THEN agreed[m] ELSE 0]
  BY DEF Decide
<1>2. ModeWanted(dev, excess) \in Season \cup {None}
  BY DEF ModeWanted, Season
<1>3. /\ mode' \in Mode /\ cand' \in Season \cup {None}
      /\ candAge' \in Age(Dwell) /\ decided' \in BOOLEAN
  <2> DEFINE want == ModeWanted(dev, excess)
  <2>1. CASE UNCHANGED pickVars
    BY <2>1 DEF TypeOK, DemandTypeOK, pickVars
  <2>2. CASE want \in {None, mode} /\ Content(want, complete)
    BY <2>2, Times DEF TypeOK, DemandTypeOK, Content, Age
  <2>3. CASE want \in Season /\ Decides(want)
    BY <2>3, Times DEF TypeOK, DemandTypeOK, Decides, Age, Mode
  <2>4. CASE want \in Season /\ Considers(want)
    BY <2>4, Times DEF TypeOK, DemandTypeOK, Considers, pickVars, Age, Mode
  <2> QED
    BY <1>1, <1>2, <2>1, <2>2, <2>3, <2>4 DEF PickMode
<1>4. on' \in BOOLEAN /\ since' \in Age(LongestHold) \cup {None}
  <2>1. HoldOn(mode' # "off")
    BY DEF Decide
  <2>2. CASE UNCHANGED holdVars
    BY <2>2 DEF TypeOK, DemandTypeOK, holdVars
  <2>3. CASE on' = (mode' # "off") /\ since' = 0
    BY <2>3, Times DEF Age
  <2> QED
    BY <2>1, <2>2, <2>3 DEF HoldOn
<1>5. agreed' \in [Season -> Age(Dwell)] /\ held' \in [Way -> Age(Confirm + 1)]
  BY <1>1, Times DEF TypeOK, Decide, Forgiven, Age
<1>6. WaterTypeOK' /\ phase \notin {"publish"} /\ target' = target
  BY DEF TypeOK, WaterTypeOK, Decide, waterVars
<1> QED
  BY <1>1, <1>3, <1>4, <1>5, <1>6 DEF TypeOK, DemandTypeOK, Decide, unit

LEMMA RoundHalfIsInt ==
  ASSUME NEW x \in Int
  PROVE  RoundHalf(x) \in Int
  BY DEF RoundHalf

LEMMA ClampIsInt ==
  ASSUME NEW m \in Water, NEW limit \in Nat \cup {None}, NEW v \in Int
  PROVE  Clamp(m, limit, v) \in Int
  BY WaterAssumption, NoneAssumption DEF Clamp, Lowest, Highest

LEMMA WishIsInt ==
  ASSUME NEW m \in Water, NEW limit \in Nat \cup {None}, house.x \in Int
  PROVE  Wish(m, limit) \in Int
  BY RoundHalfIsInt, ClampIsInt DEF Wish

\* A step of the setpoint controller leaves its memory well typed.
LEMMA WaterStepTyped ==
  ASSUME WaterTypeOK, target = None,
         NEW m \in Mode, NEW dev, NEW load, NEW over,
         NEW limit \in Nat \cup {None}, NEW current \in Int \cup {None},
         WaterStep(m, dev, load, over, limit, current)
  PROVE  WaterTypeOK'
<1>1. house' = house
  BY DEF WaterStep
<1>2. CASE m \notin Water \/ current = None
  <2>1. target' = None /\ UNCHANGED <<pending, lastChange>>
    BY <1>2 DEF WaterStep
  <2> QED
    BY <1>1, <2>1 DEF WaterTypeOK
<1>3. CASE m \in Water /\ current # None /\ lastChange = None
  <2>1. target' = None /\ lastChange' = 0 /\ UNCHANGED pending
    BY <1>3 DEF WaterStep
  <2> QED
    BY <1>1, <2>1, Times DEF WaterTypeOK, Age
<1>4. CASE m \in Water /\ current \in Int /\ lastChange # None /\ house # None
  <2> DEFINE want == Wish(m, limit)
             waited == Waited(want > current, current)
  <2>1. Direct(m, limit, current)
    BY <1>4, NoneAssumption DEF WaterStep
  <2>2. want \in Int
    BY <1>4, WishIsInt DEF WaterTypeOK
  <2>3. waited \in Age(Confirm)
    BY Times DEF Waited, WaterTypeOK, Age
  <2>4. pending' = None \/ pending' = [val |-> want, age |-> waited]
    BY <2>1 DEF Direct
  <2>5. \/ target' = None /\ lastChange' = lastChange
        \/ target' = [val |-> want, mode |-> m] /\ lastChange' = 0
    BY <2>1 DEF Direct, Stays, Moves
  <2>6. pending' = None \/ pending' \in [val : Int, age : Age(Confirm)]
    BY <2>2, <2>3, <2>4
  <2>7. target' = None \/ target' \in [val : Int, mode : Water]
    BY <1>4, <2>2, <2>5
  <2>8. lastChange' \in Age(LongestWait) \cup {None}
    BY <2>5, Times DEF WaterTypeOK, Age
  <2> QED
    BY <1>1, <2>6, <2>7, <2>8 DEF WaterTypeOK
<1>5. CASE m \in Water /\ current \in Int /\ lastChange # None /\ house = None
  <2>1. Walk(m, dev, load, over, limit, current)
    BY <1>5, NoneAssumption DEF WaterStep
  <2>2. pending' = None
    BY <2>1 DEF Walk
  <2>3. \/ target' = None /\ lastChange' = lastChange
        \/ \E v \in Int : target' = [val |-> v, mode |-> m] /\ lastChange' = 0
    <3> DEFINE more == IF m = "heating" THEN 1 ELSE -1
               wantsMore == dev # None /\ dev * more >= 1
               overshoot == dev # None /\ dev * more <= -1
               saturated == wantsMore /\ load = "saturated"
               delta == IF saturated THEN more
                        ELSE IF dev # None /\ ~wantsMore
                                /\ (load = "idle" \/ overshoot \/ over)
                        THEN -more ELSE 0
               to == Clamp(m, limit, current + delta)
    <3>1. delta \in Int
      <4> HIDE DEF wantsMore, overshoot, saturated
      <4> QED
        OBVIOUS
    <3>2. to \in Int
      <4> HIDE DEF delta
      <4> QED
        BY <1>5, <3>1, ClampIsInt
    <3>3. (target' = None /\ lastChange' = lastChange)
          \/ (target' = [val |-> to, mode |-> m] /\ lastChange' = 0)
      BY <2>1 DEF Walk, Stays, Moves
    <3> HIDE DEF to
    <3> QED
      BY <3>2, <3>3
  <2>4. target' = None \/ target' \in [val : Int, mode : Water]
    BY <1>5, <2>3
  <2>5. lastChange' \in Age(LongestWait) \cup {None}
    BY <2>3, Times DEF WaterTypeOK, Age
  <2> QED
    BY <1>1, <2>2, <2>4, <2>5 DEF WaterTypeOK
<1> QED
  BY <1>2, <1>3, <1>4, <1>5, NoneAssumption

LEMMA TrimTyped == TypeOK /\ Trim => TypeOK'
<1> SUFFICES ASSUME TypeOK, Trim PROVE TypeOK'
  OBVIOUS
<1> DEFINE current == IF mode \in Water /\ seen THEN reg[mode] ELSE None
<1>1. current \in Int \cup {None} /\ mode \in Mode
  BY DEF TypeOK, DemandTypeOK
<1>2. target = None /\ WaterTypeOK
  BY DEF TypeOK, Trim
<1>3. WaterTypeOK' /\ held' \in [Way -> Age(Confirm + 1)]
  <2>1. CASE UNCHANGED <<waterVars, held>>
    BY <1>2, <2>1 DEF TypeOK, WaterTypeOK, waterVars
  <2>2. ASSUME NEW dev \in Deviation, NEW load \in Load, NEW over \in BOOLEAN,
               NEW limit \in Limit,
               WaterStep(mode, dev, load, over, limit, current),
               held' = IF ~(mode \in Water /\ current # None /\ lastChange # None)
                       THEN held
                       ELSE [w \in Way |->
                               IF house # None /\ Wanted(limit, current) = w
                               THEN held[w] ELSE 0]
        PROVE  WaterTypeOK' /\ held' \in [Way -> Age(Confirm + 1)]
    <3>1. limit \in Nat \cup {None}
      BY SourceFields
    <3>2. WaterTypeOK'
      <4> HIDE DEF current
      <4> QED
        BY <1>1, <1>2, <2>2, <3>1, WaterStepTyped
    <3>3. held \in [Way -> Age(Confirm + 1)] /\ 0 \in Age(Confirm + 1)
      BY Times DEF TypeOK, Age
    <3>4. held' \in [Way -> Age(Confirm + 1)]
      BY <2>2, <3>3
    <3> QED
      BY <3>2, <3>4
  <2> QED
    BY <2>1, <2>2 DEF Trim
<1>4. /\ phase' = IF target' = None THEN "energy" ELSE "publish"
      /\ fault' = FALSE
      /\ UNCHANGED <<install, demandVars, cycle, excess, seen, unit, agreed>>
  BY DEF Trim, Proceed
<1> QED
  BY <1>3, <1>4 DEF TypeOK, DemandTypeOK, demandVars, pickVars, holdVars, unit

LEMMA WriteSetpointTyped == TypeOK /\ WriteSetpoint => TypeOK'
<1> SUFFICES ASSUME TypeOK, WriteSetpoint PROVE TypeOK'
  OBVIOUS
<1>1. target \in [val : Int, mode : Water]
  BY DEF TypeOK, WaterTypeOK, WriteSetpoint
<1>2. Register \in Water
  BY <1>1 DEF Register, Water
<1>3. reg' \in [Water -> Int] /\ UNCHANGED <<unitMode, power>>
  BY <1>1, <1>2 DEF TypeOK, WriteSetpoint, Refused, unit
<1>4. phase' = "energy" /\ fault' \in BOOLEAN /\ target' = None
  BY DEF WriteSetpoint, Proceed, Refused
<1> QED
  BY <1>3, <1>4 DEF WriteSetpoint, TypeOK, DemandTypeOK, WaterTypeOK, demandVars,
     pickVars, holdVars, ghosts

LEMMA EnergyShadowTyped == TypeOK /\ EnergyShadow => TypeOK'
<1>1. CASE ObserveExcess
  <2>1. SUFFICES ASSUME TypeOK, ObserveExcess PROVE TypeOK'
    BY <1>1
  <2>2. install.balances \subseteq {-1, 0, 1}
    BY <2>1, SourceFields DEF TypeOK
  <2>3. excess' \in {-1, 0, 1, None} /\ phase' \in {"target", "sync"} /\ fault' = FALSE
    BY <2>1, <2>2 DEF ObserveExcess, HouseExcess, Proceed, TypeOK
  <2> QED
    BY <2>1, <2>3 DEF ObserveExcess, TypeOK, DemandTypeOK, WaterTypeOK, demandVars,
       waterVars, pickVars, holdVars, unit, ghosts
<1>2. CASE ObserveHouseTarget
  <2>1. SUFFICES ASSUME TypeOK, ObserveHouseTarget PROVE TypeOK'
    BY <1>2
  <2>2. install.wishes \subseteq Int /\ 0 \in Age(TargetMax)
    BY <2>1, SourceFields, Times DEF TypeOK, Age
  <2>3. house' = None \/ house' \in [x : Int, age : Age(TargetMax)]
    BY <2>1, <2>2 DEF ObserveHouseTarget, HouseTarget, TypeOK, WaterTypeOK
  <2> QED
    BY <2>1, <2>3 DEF ObserveHouseTarget, Proceed, TypeOK, DemandTypeOK, WaterTypeOK,
       demandVars, pickVars, holdVars, loopMemory, unit, ghosts
<1> QED
  BY <1>1, <1>2 DEF EnergyShadow

LEMMA SyncPumpModeTyped == TypeOK /\ SyncPumpMode => TypeOK'
<1> SUFFICES ASSUME TypeOK, SyncPumpMode PROVE TypeOK'
  OBVIOUS
<1>1. unitMode' \in Season /\ UNCHANGED <<reg, power>>
  BY DEF TypeOK, DemandTypeOK, SyncPumpMode, ModeStands, Refused, unit, Mode
<1>2. phase' = "sleep" /\ fault' \in BOOLEAN
  BY DEF SyncPumpMode, Proceed, Refused
<1>3. cycle' \in 0..(Every - 1)
  BY SourceFields DEF SyncPumpMode, TypeOK
<1> QED
  BY <1>1, <1>2, <1>3 DEF SyncPumpMode, TypeOK, DemandTypeOK, WaterTypeOK, demandVars,
     pickVars, holdVars, waterVars, ghosts

LEMMA RestartTyped == TypeOK /\ Restart => TypeOK'
<1> SUFFICES ASSUME TypeOK, Restart PROVE TypeOK'
  OBVIOUS
<1>1. install.seed \in Mode /\ 0 \in 0..(Every - 1)
  BY SourceFields DEF TypeOK
<1>2. 0 \in Age(Dwell) /\ Confirm + 1 \in Age(Confirm + 1)
  BY Times DEF Age
<1>3. agreed' \in [Season -> Age(Dwell)] /\ held' \in [Way -> Age(Confirm + 1)]
  BY <1>2 DEF Restart, Forgiven
<1>4. DemandTypeOK' /\ WaterTypeOK'
  BY <1>1, <1>2 DEF Restart, DemandTypeOK, WaterTypeOK
<1>5. /\ phase' = "sleep" /\ target' = None /\ cycle' = 0 /\ excess' = None
      /\ seen' = FALSE /\ fault' = TRUE /\ UNCHANGED <<install, unit>>
  BY DEF Restart
<1> QED
  BY <1>1, <1>3, <1>4, <1>5 DEF TypeOK, unit

\* The steps that leave the controllers' memory alone, but for the modes.
LEMMA OthersTyped ==
  ASSUME TypeOK,
         \/ HoldPower \/ Fails \/ FirstRead \/ OtherHands \/ UNCHANGED vars
         \/ \E m \in Mode : SetMode(m)
  PROVE  TypeOK'
<1>1. CASE HoldPower
  <2>1. power' \in BOOLEAN /\ UNCHANGED <<reg, unitMode>>
    BY <1>1 DEF HoldPower, TypeOK, DemandTypeOK, Refused, unit
  <2>2. phase' = "trim" /\ fault' \in BOOLEAN /\ phase = "power"
    BY <1>1 DEF HoldPower, Proceed, Refused
  <2> QED
    BY <1>1, <2>1, <2>2 DEF HoldPower, TypeOK, DemandTypeOK, WaterTypeOK, demandVars,
       pickVars, holdVars, waterVars, ghosts
<1>2. CASE Fails
  BY <1>2 DEF Fails, TypeOK, DemandTypeOK, WaterTypeOK, demandVars, pickVars, holdVars,
     unit, ghosts
<1>3. CASE FirstRead
  <2>1. DemandTypeOK' /\ WaterTypeOK'
    BY <1>3 DEF FirstRead, TypeOK, DemandTypeOK, WaterTypeOK, demandVars, pickVars,
       holdVars, waterVars
  <2>2. /\ seen' = TRUE /\ fault' = FALSE /\ target' = target
        /\ UNCHANGED <<install, phase, cycle, excess, unit, ghosts>>
    BY <1>3 DEF FirstRead, waterVars
  <2> QED
    BY <2>1, <2>2 DEF TypeOK, unit, ghosts
<1>4. Forgiven \in [Way -> Age(Confirm + 1)]
  BY Times DEF Forgiven, Age
<1>5. CASE OtherHands
  <2>1. Setpoint \cup {Off} \subseteq Int
    BY SourceFields
  <2>2. reg' \in [Water -> Int] /\ unitMode' \in Season /\ power' \in BOOLEAN
    <3>1. CASE \E m \in Water, v \in Setpoint \cup {Off} :
                 reg' = [reg EXCEPT ![m] = v] /\ UNCHANGED <<unitMode, power>>
      BY <2>1, <3>1 DEF TypeOK
    <3>2. CASE \/ unitMode' \in Season /\ UNCHANGED <<reg, power>>
               \/ power' = ~power /\ UNCHANGED <<reg, unitMode>>
      BY <3>2 DEF TypeOK
    <3> QED
      BY <1>5, <3>1, <3>2 DEF OtherHands
  <2>3. /\ fault' = TRUE /\ held' = Forgiven
        /\ UNCHANGED <<install, demandVars, waterVars, loopVars, agreed>>
    BY <1>5 DEF OtherHands
  <2> QED
    BY <1>4, <2>2, <2>3 DEF TypeOK, DemandTypeOK, WaterTypeOK, demandVars, pickVars,
       holdVars, waterVars, loopVars, loopMemory
<1>6. CASE \E m \in Mode : SetMode(m)
  BY <1>4, <1>6 DEF SetMode, TypeOK, DemandTypeOK, WaterTypeOK, holdVars, waterVars,
     loopVars, loopMemory, unit
<1>7. CASE UNCHANGED vars
  BY <1>7 DEF vars, TypeOK, DemandTypeOK, WaterTypeOK, demandVars, pickVars, holdVars,
     waterVars, loopVars, loopMemory, unit, ghosts
<1> QED
  BY <1>1, <1>2, <1>3, <1>5, <1>6, <1>7

\* Every variable has its type in every reachable state, for any installations,
\* times and bounds.
THEOREM Typed == Spec => []TypeOK
<1>1. TypeOK /\ [Next]_vars => TypeOK'
  BY TickTyped, DecideTyped, TrimTyped, WriteSetpointTyped, EnergyShadowTyped,
     SyncPumpModeTyped, RestartTyped, OthersTyped DEF Next, Loop
<1> QED
  BY InitTyped, <1>1, PTL DEF Spec

----------------------------------------------------------------------------
(* The picker: a candidate is not older than the last verdict against it *)

CandidateIsAgreed == cand \in Season => candAge <= agreed[cand]

\* What the picker does with a verdict for the candidate it has, and with one
\* for the other season.
LEMMA PickKeepsAgreement ==
  ASSUME TypeOK, CandidateIsAgreed, Decide
  PROVE  CandidateIsAgreed'
<1>1. PICK dev \in Deviation, complete \in BOOLEAN :
        /\ PickMode(install.auto, dev, complete, excess)
        /\ agreed' = IF Abstains(install.auto, dev) THEN agreed
                     ELSE [m \in Season |->
                             IF ModeWanted(dev, excess) = m THEN agreed[m] ELSE 0]
  BY DEF Decide
<1> DEFINE want == ModeWanted(dev, excess)
<1>2. candAge \in Nat /\ Dwell \in Nat /\ \A m \in Season : agreed[m] \in Nat
  BY Times DEF TypeOK, DemandTypeOK, Age
<1>3. None \notin Season
  BY NoneIsNoSeason
<1>4. CASE Abstains(install.auto, dev)
  BY <1>1, <1>4 DEF PickMode, pickVars, CandidateIsAgreed
<1>5. CASE ~Abstains(install.auto, dev)
  <2>1. CASE cand' = None
    BY <1>3, <2>1 DEF CandidateIsAgreed
  <2>2. CASE want \in Season /\ Considers(want) /\ cand' # None
    <3>1. agreed'[want] = agreed[want] /\ agreed[want] \in Nat
      BY <1>1, <1>2, <1>5, <2>2
    <3>2. CASE cand' = want /\ candAge' = 0
      BY <3>1, <3>2 DEF CandidateIsAgreed
    <3>3. CASE cand = want /\ UNCHANGED pickVars
      BY <2>2, <3>1, <3>3 DEF CandidateIsAgreed, pickVars
    <3> QED
      BY <2>2, <3>2, <3>3 DEF Considers, IsNew
  <2>3. want \in Season \cup {None}
    BY DEF ModeWanted, Season
  <2> QED
    BY <1>1, <1>5, <2>1, <2>2, <2>3 DEF PickMode, Content, Decides
<1> QED
  BY <1>4, <1>5

LEMMA AgreementIsKept ==
  ASSUME TypeOK, CandidateIsAgreed, [Next]_vars
  PROVE  CandidateIsAgreed'
<1>1. CASE Tick
  <2>1. /\ cand' = cand /\ candAge' = Older(candAge, Dwell)
        /\ agreed' = [m \in Season |-> Older(agreed[m], Dwell)]
    BY <1>1 DEF Tick
  <2>2. candAge \in Age(Dwell) /\ \A m \in Season : agreed[m] \in Age(Dwell)
    BY DEF TypeOK, DemandTypeOK
  <2> QED
    BY <2>1, <2>2, Times, OlderKeepsOrder DEF CandidateIsAgreed
<1>2. CASE Decide
  BY <1>2, PickKeepsAgreement
<1>3. CASE Restart
  BY <1>3, NoneIsNoSeason DEF Restart, CandidateIsAgreed
<1>4. CASE UNCHANGED <<cand, candAge, agreed>>
  BY <1>4 DEF CandidateIsAgreed
<1>5. ASSUME HoldPower \/ Trim \/ WriteSetpoint \/ EnergyShadow \/ SyncPumpMode \/ Fails
             \/ FirstRead \/ OtherHands \/ UNCHANGED vars \/ \E m \in Mode : SetMode(m)
      PROVE  UNCHANGED <<cand, candAge, agreed>>
  BY <1>5 DEF HoldPower, Trim, WriteSetpoint, EnergyShadow, ObserveExcess,
     ObserveHouseTarget, SyncPumpMode, Fails,
     FirstRead, OtherHands, SetMode, vars, demandVars, pickVars, ghosts
<1> QED
  BY <1>1, <1>2, <1>3, <1>4, <1>5 DEF Next, Loop

LEMMA CandidateAgreed == Spec => [](TypeOK /\ CandidateIsAgreed)
<1>1. Init => CandidateIsAgreed
  BY NoneIsNoSeason DEF Init, Fresh, DemandInit, CandidateIsAgreed
<1> QED
  BY <1>1, Typed, AgreementIsKept, PTL DEF Spec

\* A change of the mode is a step of the picker, and either its first decision
\* or one for a candidate that has been agreed upon for the dwell.
LEMMA SwitchStep ==
  ASSUME TypeOK, CandidateIsAgreed, [Next]_vars,
         phase = "awake", phase' = "power", mode' # mode
  PROVE  /\ mode # "off" /\ install.auto
         /\ (~decided /\ decided') \/ agreed[mode'] = Dwell
<1>1. Decide
  BY DEF Next, Loop, Tick, HoldPower, Trim, WriteSetpoint, EnergyShadow,
     ObserveExcess, ObserveHouseTarget, SyncPumpMode,
     Fails, FirstRead, OtherHands, Restart, SetMode, loopVars, loopMemory,
     vars, demandVars, pickVars
<1>2. PICK dev \in Deviation, complete \in BOOLEAN :
        PickMode(install.auto, dev, complete, excess)
  BY <1>1 DEF Decide
<1> DEFINE want == ModeWanted(dev, excess)
<1>3. want \in Season /\ ~Abstains(install.auto, dev) /\ mode' = want
      /\ ((~decided /\ decided') \/ (cand = want /\ candAge >= Dwell))
  <2>1. want \in Season \cup {None}
    BY DEF ModeWanted, Season
  <2> QED
    BY <1>2, <2>1 DEF PickMode, Content, Decides, Considers, IsNew, pickVars
<1>4. CASE cand = want /\ candAge >= Dwell
  <2>1. candAge <= agreed[want]
    BY <1>3, <1>4 DEF CandidateIsAgreed
  <2>2. candAge \in 0..Dwell /\ agreed[want] \in 0..Dwell /\ Dwell \in Nat
    BY <1>3, Times DEF TypeOK, DemandTypeOK, Age
  <2> QED
    BY <1>3, <1>4, <2>1, <2>2 DEF Abstains, Season
<1> QED
  BY <1>3, <1>4 DEF Abstains, Season

\* The mode changes by itself only on the first complete set of rooms or when
\* all verdicts of the dwell were for the new mode.
THEOREM Settled == Spec => SwitchIsSettled
<1>1. TypeOK /\ CandidateIsAgreed /\ [Next]_vars
        => [phase = "awake" /\ phase' = "power" /\ mode' # mode
              => /\ mode # "off" /\ install.auto
                 /\ (~decided /\ decided') \/ agreed[mode'] = Dwell]_vars
  BY SwitchStep
<1> QED
  BY <1>1, CandidateAgreed, PTL DEF Spec, SwitchIsSettled

----------------------------------------------------------------------------
(* The direct law: a wish is younger than the last verdict against its way *)

WayOf(v, c) == IF v > c THEN "up" ELSE "down"

WishIsHeld ==
  pending # None /\ mode \in Water => pending.age < held[WayOf(pending.val, reg[mode])]

\* Time has passed since the last verdict, and a decision ends its wish.
VerdictIsPast ==
  phase \in {"awake", "power", "trim"} => \A w \in Way : held[w] >= 1
DecisionEndsWish == target # None => pending = None

WishInv == WishIsHeld /\ VerdictIsPast /\ DecisionEndsWish

LEMMA WayIsWay == \A v, c \in Int : WayOf(v, c) \in Way
  BY DEF WayOf, Way

\* Nothing is known of a wish any more once others have changed what it is about.
LEMMA ForgivenIsEnough ==
  ASSUME TypeOK', held' = Forgiven
  PROVE  WishIsHeld' /\ VerdictIsPast'
<1>1. \A w \in Way : held'[w] = Confirm + 1
  BY DEF Forgiven
<1>2. ASSUME pending' # None, mode' \in Water
      PROVE  pending'.age < held'[WayOf(pending'.val, reg'[mode'])]
  <2>1. pending'.age \in 0..Confirm /\ pending'.val \in Int /\ reg'[mode'] \in Int
    BY <1>2 DEF TypeOK, WaterTypeOK, Age
  <2>2. WayOf(pending'.val, reg'[mode']) \in Way
    BY <2>1, WayIsWay
  <2> QED
    BY <1>1, <2>1, <2>2, Times
<1> QED
  BY <1>1, <1>2, Times DEF WishIsHeld, VerdictIsPast

\* What the direct law makes of a wish: it keeps it with a clock that is younger
\* than the last verdict against its way, or moves that way on a ripe one.
LEMMA DirectIsHeld ==
  ASSUME TypeOK, WishInv, phase = "trim", mode \in Water, house # None,
         NEW limit \in Nat \cup {None}, Direct(mode, limit, reg[mode])
  PROVE  /\ pending' # None =>
              /\ Wanted(limit, reg[mode]) = WayOf(pending'.val, reg[mode])
              /\ pending'.age < held[WayOf(pending'.val, reg[mode])]
         /\ target' # None =>
              /\ pending' = None
              /\ held[WayOf(target'.val, reg[mode])] = Confirm + 1
<1> DEFINE want == Wish(mode, limit)
           waited == Waited(want > reg[mode], reg[mode])
           way == WayOf(want, reg[mode])
<1>1. want \in Int /\ reg[mode] \in Int /\ Confirm \in Nat
  BY WishIsInt, Times DEF TypeOK, WaterTypeOK
<1>2. held[way] \in 0..(Confirm + 1) /\ held[way] >= 1
  BY <1>1, WayIsWay DEF TypeOK, WishInv, VerdictIsPast, Age
<1>3. waited < held[way] /\ waited \in Nat
  <2>1. CASE pending # None /\ (pending.val > reg[mode]) = (want > reg[mode])
    <3>1. WayOf(pending.val, reg[mode]) = way
      BY <2>1 DEF WayOf
    <3>2. waited = pending.age /\ pending.age \in Nat
      BY <2>1 DEF Waited, TypeOK, WaterTypeOK, Age
    <3> QED
      BY <2>1, <3>1, <3>2 DEF WishInv, WishIsHeld
  <2>2. CASE ~(pending # None /\ (pending.val > reg[mode]) = (want > reg[mode]))
    BY <1>2, <2>2 DEF Waited
  <2> QED
    BY <2>1, <2>2
<1>4. CASE IsHappy(mode, limit, reg[mode])
  BY <1>4 DEF Direct, Stays
<1>5. CASE ~IsHappy(mode, limit, reg[mode])
  <2>1. Wanted(limit, reg[mode]) = way
    BY <1>5 DEF Wanted, WayOf
  <2>2. CASE pending' = [val |-> want, age |-> waited] /\ target' = None
    BY <1>3, <2>1, <2>2
  <2>3. CASE waited >= Confirm /\ pending' = None /\ target' = [val |-> want, mode |-> mode]
    BY <1>1, <1>2, <1>3, <2>3
  <2> QED
    BY <1>5, <2>2, <2>3 DEF Direct, Stays, Moves
<1> QED
  BY <1>4, <1>5

\* One run of the trim.
LEMMA TrimIsHeld ==
  ASSUME TypeOK, WishInv, Trim
  PROVE  /\ WishInv'
         /\ phase' = "publish" /\ house # None
              => held[WayOf(target'.val, reg[mode])] = Confirm + 1
<1> DEFINE current == IF mode \in Water /\ seen THEN reg[mode] ELSE None
           judges == mode \in Water /\ current # None /\ lastChange # None
<1>1. /\ phase = "trim" /\ target = None /\ reg' = reg /\ mode' = mode
      /\ phase' = IF target' = None THEN "energy" ELSE "publish"
  BY DEF Trim, TypeOK, Proceed, demandVars, pickVars, unit
<1>2. VerdictIsPast'
  BY <1>1 DEF VerdictIsPast
<1>3. CASE UNCHANGED <<waterVars, held>>
  BY <1>1, <1>2, <1>3 DEF WishInv, WishIsHeld, DecisionEndsWish, waterVars
<1>4. ASSUME NEW dev \in Deviation, NEW load \in Load, NEW over \in BOOLEAN,
             NEW limit \in Limit,
             WaterStep(mode, dev, load, over, limit, current),
             held' = IF ~judges THEN held
                     ELSE [w \in Way |->
                             IF house # None /\ Wanted(limit, current) = w
                             THEN held[w] ELSE 0]
      PROVE  /\ WishInv'
             /\ phase' = "publish" /\ house # None
                  => held[WayOf(target'.val, reg[mode])] = Confirm + 1
  <2>1. limit \in Nat \cup {None}
    BY SourceFields
  <2>2. CASE ~judges
    <3>1. target' = None /\ pending' = pending /\ held' = held
      BY <1>4, <2>2 DEF WaterStep
    <3> QED
      BY <1>1, <1>2, <3>1 DEF WishInv, WishIsHeld, DecisionEndsWish
  <2>3. CASE judges /\ house = None
    <3>1. pending' = None
      BY <1>4, <2>3 DEF WaterStep, Walk
    <3> QED
      BY <1>2, <2>3, <3>1 DEF WishInv, WishIsHeld, DecisionEndsWish
  <2>4. CASE judges /\ house # None
    <3>1. current = reg[mode] /\ Direct(mode, limit, reg[mode])
      BY <1>4, <2>4 DEF WaterStep
    <3>2. /\ pending' # None =>
              /\ Wanted(limit, reg[mode]) = WayOf(pending'.val, reg[mode])
              /\ pending'.age < held[WayOf(pending'.val, reg[mode])]
          /\ target' # None =>
              /\ pending' = None
              /\ held[WayOf(target'.val, reg[mode])] = Confirm + 1
      BY <1>1, <2>1, <2>4, <3>1, DirectIsHeld
    <3>3. held' = [w \in Way |-> IF Wanted(limit, reg[mode]) = w THEN held[w] ELSE 0]
      BY <1>4, <2>4, <3>1
    <3>4. WishIsHeld'
      BY <1>1, <3>2, <3>3 DEF WishIsHeld, WayOf, Way
    <3> QED
      BY <1>1, <1>2, <3>2, <3>4 DEF WishInv, DecisionEndsWish
  <2> QED
    BY <2>2, <2>3, <2>4
<1> QED
  BY <1>1, <1>3, <1>4 DEF Trim, waterVars

\* Time passes for a wish and for the verdicts against it alike.
LEMMA TickIsHeld ==
  ASSUME TypeOK, WishInv, Tick
  PROVE  WishInv'
<1>1. /\ phase = "sleep" /\ target = None /\ target' = None
      /\ UNCHANGED <<mode, reg>>
      /\ held' = [w \in Way |-> Older(held[w], Confirm + 1)]
      /\ pending' = IF pending = None THEN None
                    ELSE [pending EXCEPT !.age = Older(@, Confirm)]
  BY DEF Tick, WaterAges, TypeOK, unit
<1>2. held \in [Way -> Age(Confirm + 1)] /\ Confirm \in Nat
  BY Times DEF TypeOK
<1>3. VerdictIsPast'
  <2>1. ASSUME NEW w \in Way PROVE Older(held[w], Confirm + 1) >= 1
    BY <1>2, NoneAssumption DEF Older, Age
  <2> QED
    BY <1>1, <2>1 DEF VerdictIsPast
<1>4. ASSUME pending # None, mode \in Water
      PROVE  pending'.age < held'[WayOf(pending'.val, reg'[mode'])]
  <2> DEFINE way == WayOf(pending.val, reg[mode])
  <2>1. /\ pending \in [val : Int, age : Age(Confirm)] /\ reg[mode] \in Int
        /\ pending.age < held[way]
    BY <1>4 DEF TypeOK, WaterTypeOK, WishInv, WishIsHeld
  <2>2. pending'.age = Older(pending.age, Confirm) /\ pending'.val = pending.val
    BY <1>1, <1>4, <2>1
  <2>3. way \in Way
    BY <2>1, WayIsWay
  <2>4. Older(pending.age, Confirm) < Older(held[way], Confirm + 1)
    BY <1>2, <2>1, <2>3, OlderKeepsGap
  <2>5. held'[way] = Older(held[way], Confirm + 1)
    BY <1>1, <2>3
  <2>6. WayOf(pending'.val, reg'[mode']) = way
    BY <1>1, <2>2
  <2> HIDE DEF way
  <2> QED
    BY <2>2, <2>4, <2>5, <2>6
<1>5. WishIsHeld'
  BY <1>1, <1>4 DEF WishIsHeld
<1> QED
  BY <1>1, <1>3, <1>5 DEF WishInv, DecisionEndsWish

LEMMA WishStep ==
  ASSUME TypeOK, TypeOK', WishInv, [Next]_vars
  PROVE  WishInv'
<1>1. CASE Tick
  BY <1>1, TickIsHeld
<1>2. CASE Trim
  BY <1>2, TrimIsHeld
<1>3. CASE Decide
  <2>1. /\ phase = "awake" /\ UNCHANGED <<pending, target, reg>>
        /\ held' = IF mode' = mode THEN held ELSE Forgiven
    BY <1>3 DEF Decide, waterVars, unit
  <2>2. CASE mode' = mode
    BY <2>1, <2>2 DEF WishInv, WishIsHeld, VerdictIsPast, DecisionEndsWish
  <2>3. CASE mode' # mode
    BY <2>1, <2>3, ForgivenIsEnough DEF WishInv, DecisionEndsWish
  <2> QED
    BY <2>2, <2>3
<1>4. CASE OtherHands \/ (\E m \in Mode : SetMode(m))
  BY <1>4, ForgivenIsEnough DEF OtherHands, SetMode, waterVars, WishInv,
     DecisionEndsWish
<1>5. CASE Restart
  BY <1>5 DEF Restart, WishInv, WishIsHeld, VerdictIsPast, DecisionEndsWish
<1>6. CASE WriteSetpoint
  <2>1. pending = None /\ pending' = None /\ target' = None /\ phase' = "energy"
    BY <1>6 DEF WriteSetpoint, WishInv, DecisionEndsWish, TypeOK, Proceed, Refused
  <2> QED
    BY <2>1 DEF WishInv, WishIsHeld, VerdictIsPast, DecisionEndsWish
<1>7. ASSUME HoldPower \/ EnergyShadow \/ SyncPumpMode \/ Fails \/ FirstRead
             \/ UNCHANGED vars
      PROVE  WishInv'
  <2>1. UNCHANGED <<mode, pending, reg, held>> /\ (target' = target \/ target' = None)
    BY <1>7 DEF HoldPower, EnergyShadow, ObserveExcess, ObserveHouseTarget,
      SyncPumpMode, Fails, FirstRead, Refused, vars,
       demandVars, pickVars, waterVars, unit, ghosts
  <2>2. phase' \in {"awake", "power", "trim"} => phase \in {"awake", "power", "trim"}
    BY <1>7 DEF HoldPower, EnergyShadow, ObserveExcess, ObserveHouseTarget,
      SyncPumpMode, Fails, FirstRead, Refused,
       Proceed, vars, loopVars, loopMemory
  <2> QED
    BY <2>1, <2>2 DEF WishInv, WishIsHeld, VerdictIsPast, DecisionEndsWish
<1> QED
  BY <1>1, <1>2, <1>3, <1>4, <1>5, <1>6, <1>7 DEF Next, Loop

LEMMA WishHeld == Spec => [](TypeOK /\ WishInv)
<1>1. Init => WishInv
  BY DEF Init, Fresh, WaterInit, WishInv, WishIsHeld, VerdictIsPast, DecisionEndsWish
<1> QED
  BY <1>1, Typed, WishStep, PTL DEF Spec

\* Only a wish that nothing contradicted for confirm_s moves the setpoint.
THEOREM Confirmed == Spec => ConfirmedWish
<1>1. TypeOK /\ WishInv /\ [Next]_vars
        => [phase = "trim" /\ phase' = "publish" /\ house # None
              => held[IF target'.val > reg[mode] THEN "up" ELSE "down"]
                   = Confirm + 1]_vars
  <2> SUFFICES ASSUME TypeOK, WishInv, [Next]_vars,
                      phase = "trim", phase' = "publish", house # None
               PROVE  held[IF target'.val > reg[mode] THEN "up" ELSE "down"]
                        = Confirm + 1
    OBVIOUS
  <2>1. Trim
    BY DEF Next, Loop, Tick, Decide, HoldPower, WriteSetpoint, EnergyShadow,
       ObserveExcess, ObserveHouseTarget,
     
       SyncPumpMode, Fails, FirstRead, OtherHands, Restart, SetMode, loopVars,
       loopMemory, vars
  <2> QED
    BY <2>1, TrimIsHeld DEF WayOf
<1> QED
  BY <1>1, WishHeld, PTL DEF Spec, ConfirmedWish

=============================================================================
