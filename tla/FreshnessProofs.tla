--------------------------- MODULE FreshnessProofs ---------------------------
(***************************************************************************)
(* Proofs about Freshness, for every set of rooms, all windows and bounds:   *)
(* types, the bounds on the age of a reading and of the dew point in force,  *)
(* and that a connected heatctl believes what the broker still serves.       *)
(***************************************************************************)
EXTENDS Freshness, TLAPS

LEMMA Bounds ==
  /\ Default \in Nat /\ TtlMax \in Nat /\ Ceiling \in Nat /\ DewMaxAge \in Nat
  /\ Oldest \in Nat /\ Top \in Nat
  /\ 1 <= Default /\ Default <= TtlMax /\ TtlMax <= Ceiling
  /\ Ceiling < Top /\ DewMaxAge < Top
  /\ TtlMax + Top + DewMaxAge < Oldest
BY FreshnessAssumption DEF Top, MaxOf

LEMMA OlderType ==
  ASSUME NEW n \in Nat, NEW age \in 0..n
  PROVE  /\ Older(age, n) \in 0..n
         /\ Older(age, n) <= age + 1
         /\ age < n => Older(age, n) = age + 1
BY DEF Older

LEMMA ClampedType ==
  ASSUME NEW ttl \in Window
  PROVE  Clamped(ttl) = ttl /\ Clamped(ttl) \in Default..Ceiling
BY Bounds DEF Window, Clamped, MinOf, MaxOf

LEMMA TtlType ==
  ASSUME NEW period \in Period
  PROVE  MinOf(TtlMax, MaxOf(Default, period)) \in Window
BY Bounds, FreshnessAssumption DEF Window, MinOf, MaxOf

\* What a tick makes of a retained reading.
LEMMA HeldTick ==
  ASSUME NEW x \in HeldReading \cup {None}
  PROVE  /\ Ageing(Expiring(x)) \in HeldReading \cup {None}
         /\ Ageing(Expiring(x)) # None =>
              /\ x # None
              /\ Ageing(Expiring(x)).allowance = x.allowance
              /\ Ageing(Expiring(x)).age = Older(x.age, Oldest)
              /\ x.left # Forever =>
                   /\ x.left >= 1
                   /\ Ageing(Expiring(x)).left = x.left - 1
<1>1. CASE x = None
  BY <1>1 DEF Ageing, Expiring
<1>2. CASE x # None
  <2>0. x \in HeldReading
    BY <1>2
  <2>1. Older(x.age, Oldest) \in Age
    BY <2>0, OlderType, Bounds DEF HeldReading, Age
  <2>2. CASE x.left = Forever
    BY <1>2, <2>0, <2>1, <2>2 DEF Ageing, Expiring, HeldReading
  <2>3. CASE x.left # Forever
    <3>1. x.left \in 0..TtlMax
      BY <2>0, <2>3 DEF HeldReading
    <3>2. CASE x.left = 0
      BY <1>2, <2>3, <3>2 DEF Ageing, Expiring
    <3>3. CASE x.left # 0
      <4>1. x.left - 1 \in 0..TtlMax /\ x.left >= 1
        BY <3>1, <3>3, Bounds
      <4>2. Expiring(x) = [x EXCEPT !.left = x.left - 1]
        BY <1>2, <2>3, <3>3 DEF Expiring
      <4>3. Expiring(x) \in HeldReading /\ Expiring(x).age = x.age
            /\ Expiring(x).allowance = x.allowance /\ Expiring(x).left = x.left - 1
        BY <2>0, <4>1, <4>2 DEF HeldReading
      <4>4. Expiring(x) # None
        BY <4>3, NoneAssumption
      <4>5. Ageing(Expiring(x)) = [Expiring(x) EXCEPT !.age = Older(x.age, Oldest)]
        BY <4>3, <4>4 DEF Ageing
      <4> QED BY <1>2, <2>1, <4>1, <4>3, <4>5 DEF HeldReading
    <3> QED BY <3>2, <3>3
  <2> QED BY <2>2, <2>3
<1> QED BY <1>1, <1>2

LEMMA WindowTick ==
  ASSUME NEW x \in HeldWindow \cup {None}
  PROVE  /\ Expiring(x) \in HeldWindow \cup {None}
         /\ x # None /\ x.left = Forever => Expiring(x) = x
<1>1. CASE x = None \/ x.left = Forever
  BY <1>1 DEF Expiring
<1>2. CASE x # None /\ x.left # Forever
  <2>1. x \in HeldWindow /\ x.left \in 0..TtlMax
    BY <1>2 DEF HeldWindow
  <2>2. x.left # 0 => x.left - 1 \in 0..TtlMax
    BY <2>1, Bounds
  <2> QED BY <1>2, <2>1, <2>2 DEF Expiring, HeldWindow
<1> QED BY <1>1, <1>2

\* What a tick makes of a reading heatctl holds.
LEMMA ReadingTick ==
  ASSUME NEW x \in Reading \cup {None}
  PROVE  /\ Ageing(Waiting(x)) \in Reading \cup {None}
         /\ Ageing(Waiting(x)) # None =>
              /\ x # None
              /\ Ageing(Waiting(x)).allowance = x.allowance
              /\ Ageing(Waiting(x)).age = Older(x.age, Oldest)
              /\ Ageing(Waiting(x)).since = x.since + 1
         /\ x # None /\ x.since + 1 < Top => Ageing(Waiting(x)) # None
<1>1. CASE x = None
  BY <1>1 DEF Ageing, Waiting
<1>2. CASE x # None
  <2>1. x \in Reading
    BY <1>2
  <2>2. Older(x.age, Oldest) \in Age /\ Older(x.since, Top) \in 0..Top
    BY <2>1, OlderType, Bounds DEF Reading, Age
  <2>3. CASE Older(x.since, Top) = Top
    <3>1. x.since + 1 >= Top
      BY <2>1, <2>3, OlderType, Bounds DEF Reading
    <3>2. Ageing(Waiting(x)) = None
      BY <2>3 DEF Ageing, Waiting
    <3>3. ~(x.since + 1 < Top)
      BY <2>1, <3>1, Bounds DEF Reading
    <3> QED BY <3>2, <3>3
  <2>4. CASE Older(x.since, Top) # Top
    <3>1. Older(x.since, Top) = x.since + 1
      BY <2>1, <2>4, Bounds DEF Older, Reading
    <3>2. Waiting(x) = [x EXCEPT !.since = x.since + 1]
      BY <1>2, <2>4, <3>1 DEF Waiting
    <3>3. Waiting(x) \in Reading /\ Waiting(x).age = x.age
          /\ Waiting(x).allowance = x.allowance /\ Waiting(x).since = x.since + 1
      BY <2>1, <2>2, <3>1, <3>2 DEF Reading
    <3>4. Waiting(x) # None
      BY <3>3, NoneAssumption
    <3>5. Ageing(Waiting(x)) = [Waiting(x) EXCEPT !.age = Older(x.age, Oldest)]
      BY <3>3, <3>4 DEF Ageing
    <3>6. Ageing(Waiting(x)) \in Reading
      BY <2>2, <3>3, <3>5 DEF Reading
    <3>7. Ageing(Waiting(x)) # None
      BY <3>6, NoneAssumption
    <3> QED BY <1>2, <3>3, <3>5, <3>6, <3>7 DEF Reading
  <2> QED BY <2>3, <2>4
<1> QED BY <1>1, <1>2

LEMMA DewTick ==
  ASSUME NEW x \in Dew \cup {None}
  PROVE  /\ Spending(x) \in Dew \cup {None}
         /\ Spending(x) # None =>
              /\ x # None
              /\ Spending(x).since = x.since + 1
              /\ Spending(x).spare >= x.spare - 1
<1>1. CASE x = None \/ x.since = DewMaxAge
  BY <1>1 DEF Spending
<1>2. CASE x # None /\ x.since # DewMaxAge
  <2>1. x \in Dew
    BY <1>2
  <2>2. /\ MaxOf(-Oldest, x.spare - 1) \in -Oldest..Oldest
        /\ MaxOf(-Oldest, x.spare - 1) >= x.spare - 1
    BY <2>1, Bounds DEF Dew, MaxOf
  <2>3. x.since + 1 \in 0..DewMaxAge
    BY <1>2, <2>1, Bounds DEF Dew
  <2> QED BY <1>2, <2>2, <2>3 DEF Spending, Dew
<1> QED BY <1>1, <1>2

LEMMA RoomTtlType ==
  ASSUME TypeOK, NEW r \in Room
  PROVE  RoomTtl(r) \in Window
BY Bounds DEF TypeOK, RoomTtl, Window

LEMMA ArrivedType ==
  ASSUME NEW x \in HeldReading
  PROVE  /\ Arrived(x) \in Reading /\ Arrived(x) # None
         /\ Arrived(x).age = x.age /\ Arrived(x).allowance = x.allowance
         /\ Arrived(x).since = 0
<1>1. Arrived(x) \in Reading
  BY Bounds DEF Arrived, HeldReading, Reading
<1> QED BY <1>1, NoneAssumption DEF Arrived

----------------------------------------------------------------------------
(* Types *)

LEMMA DewSourceType ==
  ASSUME TypeOK, NEW s \in DewSources
  PROVE  s \in -Oldest..Oldest
<1>1. CASE \E r \in Pairs : s = MinOf(Spare(r, "temperature"), Spare(r, "humidity"))
  <2>1. PICK r \in Pairs : s = MinOf(Spare(r, "temperature"), Spare(r, "humidity"))
    BY <1>1
  <2>2. r \in Room /\ \A f \in Field : reading[r][f] \in Reading
    BY <2>1 DEF Pairs, Fresh, TypeOK
  <2>3. InForce(r, DewMaxAge) \in Nat /\ InForce(r, DewMaxAge) < Top
    BY <2>2, Bounds DEF TypeOK, InForce
  <2>4. \A f \in Field : Spare(r, f) \in -Oldest..Oldest
    BY <2>2, <2>3, Bounds DEF Spare, Reading, Age, Window
  <2> QED BY <2>1, <2>4 DEF MinOf, Field
<1>2. CASE external <= DewMaxAge /\ s = DewMaxAge - external
  BY <1>2, Bounds DEF TypeOK
<1> QED BY <1>1, <1>2 DEF DewSources

\* Every step keeps the types.
LEMMA TypeStep ==
  ASSUME TypeOK, [Next]_vars
  PROVE  TypeOK'
<1> USE DEF TypeOK
<1>1. ASSUME NEW r \in Room, NEW f \in Field, Report(r, f)
      PROVE  TypeOK'
  <2> DEFINE sample == [age |-> 0, allowance |-> RoomTtl(r), left |-> Expiry(r)]
  <2>1. sample \in HeldReading
    <3>1. RoomTtl(r) \in Window
      BY RoomTtlType
    <3> QED BY <3>1, Bounds DEF Expiry, HeldReading, Age, Window
  <2>2. Arrived(sample) \in Reading
    BY <2>1, ArrivedType
  <2> HIDE DEF sample
  <2>3. held' \in [Room -> [Field -> HeldReading \cup {None}]]
    BY <1>1, <2>1 DEF Report, sample
  <2>4. reading' \in [Room -> [Field -> Reading \cup {None}]]
    BY <1>1, <2>2 DEF Report, sample
  <2> QED BY <1>1, <2>3, <2>4 DEF Report
<1>2. ASSUME NEW r \in Room, NEW p \in Period, NEW published \in BOOLEAN,
             Learn(r, p, published)
      PROVE  TypeOK'
  <2> DEFINE ttl == MinOf(TtlMax, MaxOf(Default, p))
  <2>1. ttl \in Window
    BY TtlType
  <2> HIDE DEF ttl
  <2>2. [value |-> ttl, left |-> WindowExpiry(ttl)] \in HeldWindow
    BY <2>1 DEF HeldWindow, WindowExpiry
  <2>3. Clamped(ttl) \in Default..Ceiling
    BY <2>1, ClampedType
  <2> QED BY <1>2, <2>1, <2>2, <2>3 DEF Learn, ttl
<1>3. CASE NormaliserRestart
  BY <1>3 DEF NormaliserRestart, Nowhere, broker, plane
<1>4. CASE Connect
  <2>1. reading' \in [Room -> [Field -> Reading \cup {None}]]
    BY <1>4, ArrivedType DEF Connect
  <2>2. maxAge' \in [Room -> (Default..Ceiling) \cup {None}]
    BY <1>4, ClampedType DEF Connect, HeldWindow
  <2> QED BY <1>4, <2>1, <2>2 DEF Connect, broker
<1>5. CASE Disconnect
  BY <1>5 DEF Disconnect, broker
<1>6. CASE HeatctlRestart
  <2>1. DewMaxAge + 1 \in 0..DewMaxAge + 1
    BY Bounds
  <2> QED BY <1>6, <2>1 DEF HeatctlRestart, broker, NoReading, Nowhere
<1>7. ASSUME NEW r \in Room, ClearWindow(r)
      PROVE  TypeOK'
  BY <1>7, Bounds DEF ClearWindow, Window
<1>8. CASE ExternalDewPoint
  <2>1. 0 \in 0..DewMaxAge + 1
    BY Bounds
  <2> QED BY <1>8, <2>1 DEF ExternalDewPoint, broker
<1>9. CASE Cycle
  <2>1. dew' \in Dew \cup {None}
    <3>1. ASSUME NEW s \in DewSources, dew' = [spare |-> s, since |-> 0]
          PROVE  dew' \in Dew
      BY <3>1, DewSourceType, Bounds DEF Dew
    <3> QED BY <1>9, <3>1 DEF Cycle, SetDewPoint, Keep
  <2> QED BY <1>9, <2>1 DEF Cycle, broker, plane
<1>10. CASE Tick
  <2>1. held' \in [Room -> [Field -> HeldReading \cup {None}]]
    BY <1>10, HeldTick DEF Tick
  <2>2. window' \in [Room -> HeldWindow \cup {None}]
    BY <1>10, WindowTick DEF Tick
  <2>3. reading' \in [Room -> [Field -> Reading \cup {None}]]
    BY <1>10, ReadingTick DEF Tick
  <2>4. external' \in 0..DewMaxAge + 1
    BY <1>10, OlderType, Bounds DEF Tick
  <2>5. dew' \in Dew \cup {None}
    BY <1>10, DewTick DEF Tick
  <2> QED BY <1>10, <2>1, <2>2, <2>3, <2>4, <2>5 DEF Tick
<1>11. CASE UNCHANGED vars
  BY <1>11 DEF vars, broker, plane
<1> QED
  BY <1>1, <1>2, <1>3, <1>4, <1>5, <1>6, <1>7, <1>8, <1>9, <1>10, <1>11 DEF Next

\* What the broker retains, what heatctl holds of it, the windows and the dew point
\* keep their types for every set of rooms and all windows.
THEOREM Typed == Spec => []TypeOK
<1>1. Init => TypeOK
  <2>1. DewMaxAge + 1 \in 0..DewMaxAge + 1 /\ Default \in Window
    BY Bounds DEF Window
  <2>2. ASSUME NEW S
        PROVE  /\ Nowhere \in [Room -> S \cup {None}]
               /\ NoReading \in [Room -> [Field -> S \cup {None}]]
    BY DEF Nowhere, NoReading
  <2>3. [r \in Room |-> Default] \in [Room -> Window]
    BY <2>1
  <2> QED BY <2>1, <2>2, <2>3 DEF Init, TypeOK
<1>2. TypeOK /\ [Next]_vars => TypeOK'
  BY TypeStep
<1> QED BY <1>1, <1>2, PTL DEF Spec

----------------------------------------------------------------------------
(* Ages *)

\* A retained reading has at most its allowance left; one heatctl holds was within
\* its allowance when it arrived; the samples of a dew point were, with the window
\* in force, when it was stamped.
HeldWithin(x) == x # None => x.left # Forever /\ x.age + x.left <= x.allowance
ReadWithin(x) == x # None => x.age <= x.allowance + x.since
AgeInv ==
  /\ \A r \in Room, f \in Field : HeldWithin(held[r][f]) /\ ReadWithin(reading[r][f])
  /\ dew # None => dew.spare >= -dew.since

LEMMA SourceToSpare ==
  ASSUME TypeOK, AgeInv, NEW s \in DewSources
  PROVE  s \in Nat
<1>1. CASE \E r \in Pairs : s = MinOf(Spare(r, "temperature"), Spare(r, "humidity"))
  <2>1. PICK r \in Pairs : s = MinOf(Spare(r, "temperature"), Spare(r, "humidity"))
    BY <1>1
  <2>2. /\ r \in Room
        /\ \A f \in Field : /\ reading[r][f] \in Reading
                           /\ reading[r][f].since <= InForce(r, DewMaxAge)
                           /\ ReadWithin(reading[r][f]) /\ reading[r][f] # None
    BY <2>1 DEF Pairs, Fresh, TypeOK, AgeInv
  <2>3. InForce(r, DewMaxAge) \in Nat
    BY <2>2, Bounds DEF TypeOK, InForce
  <2>4. \A f \in Field : Spare(r, f) \in Nat
    BY <2>2, <2>3, Bounds DEF Spare, Reading, Age, Window, ReadWithin
  <2> QED BY <2>1, <2>4 DEF MinOf, Field
<1>2. CASE external <= DewMaxAge /\ s = DewMaxAge - external
  BY <1>2, Bounds DEF TypeOK
<1> QED BY <1>1, <1>2 DEF DewSources

LEMMA AgeStep ==
  ASSUME TypeOK, TypeOK', AgeInv, [Next]_vars
  PROVE  AgeInv'
<1>1. ASSUME NEW r \in Room, NEW f \in Field, Report(r, f)
      PROVE  AgeInv'
  <2> DEFINE sample == [age |-> 0, allowance |-> RoomTtl(r), left |-> Expiry(r)]
  <2>1. RoomTtl(r) \in Window
    BY RoomTtlType
  <2>2. sample \in HeldReading /\ HeldWithin(sample)
    BY <2>1, Bounds, FreshnessAssumption
       DEF Expiry, HeldReading, HeldWithin, Age, Window
  <2>3. ReadWithin(Arrived(sample))
    BY <2>1, Bounds DEF ReadWithin, Arrived, Window
  <2> HIDE DEF sample
  <2>4. \A q \in Room, g \in Field :
          /\ held'[q][g] = held[q][g] \/ held'[q][g] = sample
          /\ reading'[q][g] = reading[q][g] \/ reading'[q][g] = Arrived(sample)
    BY <1>1 DEF Report, TypeOK, sample
  <2>5. dew' = dew
    BY <1>1 DEF Report
  <2> QED BY <2>2, <2>3, <2>4, <2>5 DEF AgeInv
<1>2. ASSUME UNCHANGED <<held, reading, dew>>
      PROVE  AgeInv'
  BY <1>2 DEF AgeInv
<1>3. CASE Connect
  <2>1. \A r \in Room, f \in Field : held[r][f] # None => ReadWithin(Arrived(held[r][f]))
    <3>1. ASSUME NEW r \in Room, NEW f \in Field, held[r][f] # None
          PROVE  ReadWithin(Arrived(held[r][f]))
      <4>1. /\ held[r][f] \in HeldReading /\ HeldWithin(held[r][f])
        BY <3>1 DEF TypeOK, AgeInv
      <4>2. held[r][f].age <= held[r][f].allowance
        BY <4>1, <3>1, Bounds DEF HeldReading, HeldWithin, Age, Window
      <4> QED BY <4>1, <4>2, ArrivedType DEF ReadWithin, HeldReading, Age, Window
    <3> QED BY <3>1
  <2>2. \A r \in Room, f \in Field : ReadWithin(reading'[r][f])
    BY <1>3, <2>1 DEF Connect, AgeInv
  <2> QED BY <1>3, <2>2 DEF Connect, AgeInv, broker
<1>4. CASE HeatctlRestart
  BY <1>4 DEF HeatctlRestart, AgeInv, NoReading, ReadWithin, broker
<1>5. CASE Cycle
  <2>1. UNCHANGED <<held, reading>>
    BY <1>5 DEF Cycle, broker, plane
  <2>2. dew' # None => dew'.spare >= -dew'.since
    <3>1. ASSUME NEW s \in DewSources, dew' = [spare |-> s, since |-> 0]
          PROVE  dew'.spare >= -dew'.since
      BY <3>1, SourceToSpare
    <3> QED BY <1>5, <3>1 DEF Cycle, SetDewPoint, Keep, AgeInv
  <2> QED BY <2>1, <2>2 DEF AgeInv
<1>6. CASE Tick
  <2>1. ASSUME NEW r \in Room, NEW f \in Field
        PROVE  HeldWithin(held'[r][f])
    <3> DEFINE x == held[r][f]
    <3>1. x \in HeldReading \cup {None} /\ HeldWithin(x)
      BY DEF TypeOK, AgeInv
    <3>2. held'[r][f] = Ageing(Expiring(x))
      BY <1>6 DEF Tick
    <3> HIDE DEF x
    <3>3. ASSUME held'[r][f] # None
          PROVE  /\ held'[r][f].left # Forever
                 /\ held'[r][f].age + held'[r][f].left <= held'[r][f].allowance
      <4>1. /\ x # None /\ held'[r][f].allowance = x.allowance
            /\ held'[r][f].age = Older(x.age, Oldest)
            /\ x.left # Forever => held'[r][f].left = x.left - 1
        BY <3>1, <3>2, <3>3, HeldTick
      <4>2. x \in HeldReading /\ x.left # Forever /\ x.left \in Nat /\ x.age + x.left <= x.allowance
        BY <3>1, <4>1, Bounds DEF HeldReading, HeldWithin
      <4>3. /\ Older(x.age, Oldest) <= x.age + 1 /\ Older(x.age, Oldest) \in Nat
        BY <4>2, OlderType, Bounds DEF HeldReading, Age
      <4>4. x.left - 1 # Forever
        BY <4>2, FreshnessAssumption
      <4> QED BY <4>1, <4>2, <4>3, <4>4, Bounds DEF HeldReading, HeldWithin, Age, Window
    <3> QED BY <3>3 DEF HeldWithin
  <2>2. ASSUME NEW r \in Room, NEW f \in Field
        PROVE  ReadWithin(reading'[r][f])
    <3> DEFINE x == reading[r][f]
    <3>1. x \in Reading \cup {None} /\ ReadWithin(x)
      BY DEF TypeOK, AgeInv
    <3>2. reading'[r][f] = Ageing(Waiting(x))
      BY <1>6 DEF Tick
    <3> HIDE DEF x
    <3>3. ASSUME reading'[r][f] # None
          PROVE  reading'[r][f].age <= reading'[r][f].allowance + reading'[r][f].since
      <4>1. /\ x \in Reading /\ x # None /\ reading'[r][f].allowance = x.allowance
            /\ reading'[r][f].age = Older(x.age, Oldest)
            /\ reading'[r][f].since = x.since + 1
        BY <3>1, <3>2, <3>3, ReadingTick
      <4>2. /\ Older(x.age, Oldest) <= x.age + 1 /\ Older(x.age, Oldest) \in Nat
        BY <4>1, OlderType, Bounds DEF Reading, Age
      <4> QED BY <3>1, <4>1, <4>2, Bounds DEF Reading, ReadWithin, Age, Window
    <3> QED BY <3>3 DEF ReadWithin
  <2>3. dew' # None => dew'.spare >= -dew'.since
    <3>1. dew \in Dew \cup {None} /\ dew' = Spending(dew)
      BY <1>6 DEF Tick, TypeOK
    <3>2. ASSUME dew' # None
          PROVE  dew'.spare >= -dew'.since
      <4>1. dew \in Dew /\ dew' \in Dew /\ dew'.since = dew.since + 1
            /\ dew'.spare >= dew.spare - 1 /\ dew.spare >= -dew.since
        BY <3>1, <3>2, DewTick DEF AgeInv, TypeOK
      <4> QED BY <4>1, Bounds DEF Dew
    <3> QED BY <3>2
  <2> QED BY <2>1, <2>2, <2>3 DEF AgeInv
<1> QED
  BY <1>1, <1>2, <1>3, <1>4, <1>5, <1>6
     DEF Next, Learn, NormaliserRestart, Disconnect, ClearWindow,
         ExternalDewPoint, broker, plane, vars

LEMMA Ages == Spec => [](TypeOK /\ AgeInv)
<1>1. Init => AgeInv
  BY DEF Init, AgeInv, NoReading, HeldWithin, ReadWithin
<1>2. TypeOK /\ TypeOK' /\ AgeInv /\ [Next]_vars => AgeInv'
  BY AgeStep
<1> QED BY <1>1, <1>2, Typed, PTL DEF Spec

\* A reading that drives its room is not older than the window it was published
\* with plus the one heatctl grants the room, through any restarts and reconnects
\* of the three processes, for every set of rooms and all windows.
THEOREM ReadingAges == Spec => []ReadingAgeBounded
<1>1. TypeOK /\ AgeInv => ReadingAgeBounded
  <2> SUFFICES ASSUME TypeOK, AgeInv, NEW r \in Room, NEW f \in Field,
                      NEW default \in {Default, DewMaxAge}, Fresh(r, f, default)
               PROVE  reading[r][f].age <= reading[r][f].allowance + InForce(r, default)
    BY DEF ReadingAgeBounded
  <2>1. /\ reading[r][f] \in Reading /\ ReadWithin(reading[r][f])
        /\ reading[r][f].since <= InForce(r, default) /\ reading[r][f] # None
    BY DEF TypeOK, AgeInv, Fresh
  <2>2. InForce(r, default) \in Nat
    BY Bounds DEF TypeOK, InForce
  <2> QED BY <2>1, <2>2, Bounds DEF Reading, ReadWithin, Age, Window
<1> QED BY <1>1, Ages, PTL

\* The dew point the condensation limit is computed from is at most DewMaxAge older
\* than that.
THEOREM DewAges == Spec => []DewAgeBounded
<1>1. TypeOK /\ AgeInv => DewAgeBounded
  BY Bounds DEF TypeOK, AgeInv, DewAgeBounded, DewKnown, Dew
<1> QED BY <1>1, Ages, PTL

----------------------------------------------------------------------------
(* Sight *)

\* A window the broker retains is the last one it was told and does not expire; a
\* connected heatctl has adopted it, and has every retained reading, which has
\* been with it for no longer than the sample is old.
WindowInv ==
  \A r \in Room :
    /\ IF window[r] = None THEN told[r] = Default
       ELSE window[r].value = told[r] /\ window[r].left = Forever
    /\ link /\ window[r] # None => maxAge[r] = told[r]
SightInv ==
  link => \A r \in Room, f \in Field :
    held[r][f] # None =>
      reading[r][f] # None /\ reading[r][f].since <= held[r][f].age

LEMMA WindowStep ==
  ASSUME TypeOK, WindowInv, [Next]_vars
  PROVE  WindowInv'
<1>1. ASSUME NEW r \in Room, NEW p \in Period, NEW published \in BOOLEAN,
             Learn(r, p, published)
      PROVE  WindowInv'
  <2> DEFINE ttl == MinOf(TtlMax, MaxOf(Default, p))
  <2>1. ttl \in Window /\ Clamped(ttl) = ttl
    BY TtlType, ClampedType
  <2>2. ttl # None
    BY <2>1, Bounds, NoneAssumption DEF Window
  <2> HIDE DEF ttl
  <2> DEFINE new == [value |-> ttl, left |-> WindowExpiry(ttl)]
  <2>3. new \in HeldWindow /\ new.value = ttl /\ new.left = Forever
    BY <2>1 DEF HeldWindow, WindowExpiry
  <2>4. new # None
    BY <2>3, NoneAssumption
  <2> HIDE DEF new
  <2>5. CASE published
    <3>1. \A q \in Room : /\ window'[q] = (IF q = r THEN new ELSE window[q])
                         /\ told'[q] = (IF q = r THEN ttl ELSE told[q])
      BY <1>1, <2>5 DEF Learn, TypeOK, ttl, new
    <3>2. link' = link /\ (link => \A q \in Room :
                              maxAge'[q] = (IF q = r THEN ttl ELSE maxAge[q]))
      BY <1>1, <2>1, <2>5 DEF Learn, TypeOK, ttl
    <3> QED BY <2>3, <2>4, <3>1, <3>2 DEF WindowInv
  <2>6. CASE ~published
    BY <1>1, <2>6 DEF Learn, WindowInv
  <2> QED BY <2>5, <2>6
<1>2. CASE Connect
  <2>1. \A r \in Room : window[r] # None => Clamped(window[r].value) = told[r]
    BY ClampedType DEF TypeOK, WindowInv
  <2> QED BY <1>2, <2>1 DEF Connect, WindowInv, broker
<1>3. ASSUME NEW r \in Room, ClearWindow(r)
      PROVE  WindowInv'
  BY <1>3 DEF ClearWindow, WindowInv, TypeOK
<1>4. CASE Tick
  <2>1. \A r \in Room : window'[r] = window[r]
    BY <1>4, WindowTick DEF Tick, WindowInv, TypeOK, Expiring
  <2> QED BY <1>4, <2>1 DEF Tick, WindowInv
<1>5. CASE HeatctlRestart
  BY <1>5 DEF HeatctlRestart, WindowInv, broker
<1>6. CASE Disconnect
  BY <1>6 DEF Disconnect, WindowInv, broker
<1>7. ASSUME UNCHANGED <<window, told, link, maxAge>>
      PROVE  WindowInv'
  BY <1>7 DEF WindowInv
<1> QED
  BY <1>1, <1>2, <1>3, <1>4, <1>5, <1>6, <1>7
     DEF Next, Report, NormaliserRestart, ExternalDewPoint, Cycle, broker, plane, vars

LEMMA SightStep ==
  ASSUME TypeOK, TypeOK', AgeInv, SightInv, [Next]_vars
  PROVE  SightInv'
<1>1. ASSUME NEW r \in Room, NEW f \in Field, Report(r, f)
      PROVE  SightInv'
  <2> DEFINE sample == [age |-> 0, allowance |-> RoomTtl(r), left |-> Expiry(r)]
  <2>1. sample \in HeldReading
    BY RoomTtlType, Bounds DEF Expiry, HeldReading, Age, Window
  <2>2. Arrived(sample) # None /\ Arrived(sample).since = 0 /\ sample.age = 0
    BY <2>1, ArrivedType
  <2> HIDE DEF sample
  <2>3. link' = link /\ (link => \A q \in Room, g \in Field :
          \/ held'[q][g] = held[q][g] /\ reading'[q][g] = reading[q][g]
          \/ held'[q][g] = sample /\ reading'[q][g] = Arrived(sample))
    BY <1>1 DEF Report, TypeOK, sample
  <2> QED BY <2>2, <2>3 DEF SightInv
<1>2. CASE Connect
  <2>1. ASSUME NEW r \in Room, NEW f \in Field, held'[r][f] # None
        PROVE  reading'[r][f] # None /\ reading'[r][f].since <= held'[r][f].age
    <3>1. /\ held[r][f] \in HeldReading /\ held'[r][f] = held[r][f]
          /\ reading'[r][f] = Arrived(held[r][f])
      BY <1>2, <2>1 DEF Connect, broker, TypeOK
    <3> QED BY <3>1, ArrivedType, Bounds DEF HeldReading, Age
  <2> QED BY <2>1 DEF SightInv
<1>3. CASE Tick
  <2>1. ASSUME link, NEW r \in Room, NEW f \in Field, held'[r][f] # None
        PROVE  reading'[r][f] # None /\ reading'[r][f].since <= held'[r][f].age
    <3> DEFINE x == held[r][f]
               y == reading[r][f]
    <3>1. /\ x \in HeldReading \cup {None} /\ held'[r][f] = Ageing(Expiring(x))
          /\ y \in Reading \cup {None} /\ reading'[r][f] = Ageing(Waiting(y))
          /\ HeldWithin(x)
      BY <1>3 DEF Tick, TypeOK, AgeInv
    <3>2. x # None => y # None /\ y.since <= x.age
      BY <2>1 DEF SightInv
    <3> HIDE DEF x, y
    <3>3. /\ x # None /\ held'[r][f].age = Older(x.age, Oldest)
          /\ x.left # Forever => x.left >= 1
      BY <2>1, <3>1, HeldTick
    <3>4. /\ x \in HeldReading /\ y \in Reading /\ y # None /\ y.since <= x.age
          /\ x.left # Forever /\ x.age + x.left <= x.allowance
      BY <3>1, <3>2, <3>3 DEF HeldWithin
    <3>5. x.age + 1 <= TtlMax
      BY <3>3, <3>4, Bounds DEF HeldReading, Age, Window
    <3>6. Older(x.age, Oldest) = x.age + 1
      BY <3>4, <3>5, OlderType, Bounds DEF HeldReading, Age
    <3>7. y.since + 1 < Top
      BY <3>4, <3>5, Bounds DEF HeldReading, Age, Reading
    <3>8. reading'[r][f] # None /\ reading'[r][f].since = y.since + 1
      BY <3>1, <3>4, <3>7, ReadingTick
    <3> QED BY <3>3, <3>4, <3>6, <3>8, Bounds DEF HeldReading, Age, Reading
  <2> QED BY <1>3, <2>1 DEF SightInv, Tick
<1>4. CASE HeatctlRestart
  BY <1>4 DEF HeatctlRestart, SightInv
<1>5. CASE Disconnect
  BY <1>5 DEF Disconnect, SightInv
<1>6. ASSUME UNCHANGED <<held, link, reading>>
      PROVE  SightInv'
  BY <1>6 DEF SightInv
<1> QED
  BY <1>1, <1>2, <1>3, <1>4, <1>5, <1>6
     DEF Next, Learn, NormaliserRestart, ClearWindow, ExternalDewPoint, Cycle,
         broker, plane, vars

\* A connected heatctl believes whatever the broker still serves, whoever was
\* restarted in between, unless the reading was published with a longer window
\* than the broker was last told: for every set of rooms and all windows.
THEOREM Sight == Spec => []NotBlindWhileHeld
<1>1. Init => WindowInv /\ SightInv
  BY DEF Init, WindowInv, SightInv, Nowhere
<1>2. TypeOK /\ TypeOK' /\ AgeInv /\ WindowInv /\ SightInv /\ [Next]_vars
        => WindowInv' /\ SightInv'
  BY WindowStep, SightStep
<1>3. TypeOK /\ AgeInv /\ WindowInv /\ SightInv => NotBlindWhileHeld
  <2> SUFFICES ASSUME TypeOK, AgeInv, WindowInv, SightInv,
                      NEW r \in Room, NEW f \in Field,
                      link, held[r][f] # None, held[r][f].allowance <= told[r]
               PROVE  Fresh(r, f, Default)
    BY DEF NotBlindWhileHeld
  <2>1. /\ held[r][f] \in HeldReading /\ HeldWithin(held[r][f])
        /\ reading[r][f] \in Reading /\ reading[r][f] # None
        /\ reading[r][f].since <= held[r][f].age
    BY DEF TypeOK, AgeInv, SightInv
  <2>2. held[r][f].age <= held[r][f].allowance
    BY <2>1, Bounds DEF HeldReading, HeldWithin, Age, Window
  <2>3. told[r] \in Window /\ InForce(r, Default) \in Nat /\ told[r] <= InForce(r, Default)
    <3>1. told[r] \in Window /\ maxAge[r] \in (Default..Ceiling) \cup {None}
      BY DEF TypeOK
    <3>2. told[r] # None
      BY <3>1, Bounds, NoneAssumption DEF Window
    <3>3. window[r] # None => maxAge[r] = told[r]
      BY DEF WindowInv
    <3>4. window[r] = None => told[r] = Default
      BY DEF WindowInv
    <3> QED BY <3>1, <3>2, <3>3, <3>4, Bounds DEF InForce, Window
  <2> QED BY <2>1, <2>2, <2>3, Bounds DEF Fresh, HeldReading, Reading, Age, Window
<1> QED BY <1>1, <1>2, <1>3, Ages, PTL DEF Spec
=============================================================================
