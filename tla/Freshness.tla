------------------------------ MODULE Freshness ------------------------------
(***************************************************************************)
(* How old may a reading be that the plant acts on?  Room sensors sleep and *)
(* are sampled; normaliser/main.py republishes each sample retained, with    *)
(* an expiry the broker enforces; heatctl/mqtt_plane.py, a subscriber that   *)
(* is told no age, counts from arrival; heatctl/safety.py keeps the dew      *)
(* point it was last given for a while more.  Any of the three processes     *)
(* may restart or lose its connection, and each room's window is learned     *)
(* from its device and passed on through the broker as well.                 *)
(*                                                                         *)
(* Time is counted in ticks.  Values are left out: the dew point of the      *)
(* house is that of some source in sight, the highest one.                   *)
(***************************************************************************)
EXTENDS Integers

CONSTANTS
  Room,
  None,        \* Python's None
  Default,     \* ttl_s and room_temp_max_age_s, one judgement
  TtlMax,      \* ttl_max_s: the normaliser's bound on a learned window
  Ceiling,     \* room_temp_max_age_ceiling_s: heatctl's bound on it
  DewMaxAge,   \* dew_point_max_age_s
  Period,      \* the wake periods a device may report, times wake_factor
  Forever,     \* no expiry
  Oldest       \* ages are not counted further (a bound of the model)

Field == {"temperature", "humidity"}

MaxOf(a, b) == IF a >= b THEN a ELSE b
MinOf(a, b) == IF a <= b THEN a ELSE b

\* Where a since-arrival count may stop: past every window.
Top == MaxOf(Ceiling, DewMaxAge) + 1

ASSUME FreshnessAssumption ==
  /\ {Default, TtlMax, Ceiling, DewMaxAge} \subseteq Nat \ {0}
  /\ Period \subseteq Nat
  /\ Default <= TtlMax /\ TtlMax <= Ceiling
  /\ Oldest \in Nat /\ Oldest > TtlMax + Top + DewMaxAge
  /\ Forever \notin Int

VARIABLES
  learned,  \* Normaliser._room_ttl, None for a room it does not hold
  held,     \* retained readings at the broker, by room and field
  window,   \* retained max_age_s at the broker, by room
  link,     \* heatctl is connected to the broker
  reading,  \* ControlPlane.room_temps, room_hum and their time stamps
  maxAge,   \* ControlPlane.room_max_age
  external, \* how long ago the dew point from Home Assistant arrived
  dew,      \* Safety._dew and _dew_ts
  told      \* for the properties: the last window that reached the broker

broker == <<held, window, told>>
plane == <<link, reading, maxAge, external>>
vars == <<learned, broker, plane, dew>>

Age == 0..Oldest
Window == Default..TtlMax

\* age: since the sample was taken.  allowance: the window it was sent with.
HeldReading == [age : Age, allowance : Window, left : (0..TtlMax) \cup {Forever}]
HeldWindow == [value : Window, left : (0..TtlMax) \cup {Forever}]
Reading == [age : Age, allowance : Window, since : 0..Top]
\* spare: for how long the samples it is made from could still have been believed.
Dew == [spare : -Oldest..Oldest, since : 0..DewMaxAge]

ASSUME NoneAssumption ==
  None \notin HeldReading \cup HeldWindow \cup Reading \cup Dew \cup Int

TypeOK ==
  /\ link \in BOOLEAN
  /\ learned \in [Room -> Window \cup {None}]
  /\ held \in [Room -> [Field -> HeldReading \cup {None}]]
  /\ window \in [Room -> HeldWindow \cup {None}]
  /\ reading \in [Room -> [Field -> Reading \cup {None}]]
  /\ maxAge \in [Room -> (Default..Ceiling) \cup {None}]
  /\ external \in 0..DewMaxAge + 1
  /\ dew \in Dew \cup {None}
  /\ told \in [Room -> Window]

Nowhere == [r \in Room |-> None]
NoReading == [r \in Room |-> [f \in Field |-> None]]

Init ==
  /\ learned = Nowhere
  /\ held = NoReading /\ window = Nowhere
  /\ link = FALSE /\ reading = NoReading /\ maxAge = Nowhere
  /\ external = DewMaxAge + 1
  /\ dew = None
  /\ told = [r \in Room |-> Default]

----------------------------------------------------------------------------
(* normaliser/main.py *)

RoomTtl(r) == IF learned[r] = None THEN Default ELSE learned[r]

\* _pub: a reading expires at the broker when its room's window is over ...
NoExpiry(r) == Forever   \* mutant: the readings are retained without an expiry
Expiry(r) == RoomTtl(r)

\* ... the window itself never does.
WindowExpiring(ttl) == ttl   \* mutant: the window expires like a reading
WindowExpiry(ttl) == Forever

\* What heatctl makes of a reading that arrives.
Arrived(x) == [age |-> x.age, allowance |-> x.allowance, since |-> 0]

\* A device wakes and the sample of one field is accepted and published
\* (on_message).  One that is unreadable or out of its band changes nothing, nor
\* does one that comes while the normaliser is not connected (run).
Report(r, f) ==
  LET sample == [age |-> 0, allowance |-> RoomTtl(r), left |-> Expiry(r)] IN
  /\ held' = [held EXCEPT ![r][f] = sample]
  /\ reading' = IF link THEN [reading EXCEPT ![r][f] = Arrived(sample)] ELSE reading
  /\ UNCHANGED <<learned, window, told, link, maxAge, external, dew>>

\* heatctl adopts a window within its own clamp (_set_max_age).
Clamped(ttl) == MinOf(Ceiling, MaxOf(Default, ttl))

\* A device tells its wake period (_learn_window).  A window that is new is kept
\* first and published afterwards: the publication may fail.
Learn(r, period, published) ==
  LET ttl == MinOf(TtlMax, MaxOf(Default, period)) IN
  /\ learned[r] # ttl
  /\ learned' = [learned EXCEPT ![r] = ttl]
  /\ IF published
       THEN /\ window' = [window EXCEPT ![r] = [value |-> ttl, left |-> WindowExpiry(ttl)]]
            /\ told' = [told EXCEPT ![r] = ttl]
            /\ maxAge' = IF link THEN [maxAge EXCEPT ![r] = Clamped(ttl)] ELSE maxAge
       ELSE UNCHANGED <<window, told, maxAge>>
  /\ UNCHANGED <<held, link, reading, external, dew>>

NormaliserRestart ==
  /\ learned' = Nowhere
  /\ UNCHANGED <<broker, plane, dew>>

----------------------------------------------------------------------------
(* heatctl/mqtt_plane.py *)

\* The subscriptions: all the broker retains arrives, as if it were new.
Connect ==
  /\ ~link /\ link' = TRUE
  /\ reading' = [r \in Room |-> [f \in Field |->
       IF held[r][f] = None THEN reading[r][f] ELSE Arrived(held[r][f])]]
  /\ maxAge' = [r \in Room |->
       IF window[r] = None THEN maxAge[r] ELSE Clamped(window[r].value)]
  /\ UNCHANGED <<learned, broker, external, dew>>

Disconnect ==
  /\ link /\ link' = FALSE
  /\ UNCHANGED <<learned, broker, reading, maxAge, external, dew>>

\* The process starts again: nothing but the configuration is left.
HeatctlRestart ==
  /\ link' = FALSE /\ reading' = NoReading /\ maxAge' = Nowhere
  /\ external' = DewMaxAge + 1 /\ dew' = None
  /\ UNCHANGED <<learned, broker>>

\* Someone clears a retained window by hand.
ClearWindow(r) ==
  /\ window[r] # None
  /\ window' = [window EXCEPT ![r] = None]
  /\ told' = [told EXCEPT ![r] = Default]
  /\ maxAge' = IF link THEN [maxAge EXCEPT ![r] = None] ELSE maxAge
  /\ UNCHANGED <<learned, held, link, reading, external, dew>>

\* The dew point from Home Assistant is not retained (_dispatch).
ExternalDewPoint ==
  /\ link /\ external' = 0
  /\ UNCHANGED <<learned, broker, link, reading, maxAge, dew>>

\* _max_age: the room's own window, else the caller's default.
InForce(r, default) == IF maxAge[r] = None THEN default ELSE maxAge[r]

Fresh(r, f, default) ==
  reading[r][f] # None /\ reading[r][f].since <= InForce(r, default)

\* room_temp: what drives the room, while it is there.
RoomSeen(r) == Fresh(r, "temperature", Default)

\* local_dew_point: the rooms of which both halves are fresh.
Pairs == {r \in Room : \A f \in Field : Fresh(r, f, DewMaxAge)}

Spare(r, f) ==
  reading[r][f].allowance + InForce(r, DewMaxAge) - reading[r][f].age

\* The sources of dew_point, by what they have to spare.  That of Home Assistant
\* carries no age but that of its arrival.
DewSources ==
  {MinOf(Spare(r, "temperature"), Spare(r, "humidity")) : r \in Pairs}
    \cup (IF external <= DewMaxAge THEN {DewMaxAge - external} ELSE {})

----------------------------------------------------------------------------
(* The control cycle *)

\* Safety.set_dew_point: None is no news.  Any of the sources may be the highest;
\* a pair may be no dew point at all (out of its bands).
KeepRestamped == dew' = IF dew = None THEN None ELSE [dew EXCEPT !.since = 0]   \* mutant
Keep == UNCHANGED dew
SetDewPoint ==
  \/ \E s \in DewSources : dew' = [spare |-> s, since |-> 0]
  \/ external > DewMaxAge /\ Keep

\* dew_point_known: without it cooling_supply_limit is None and cooling stops.
DewKnown == dew # None /\ dew.since <= DewMaxAge

Cycle ==
  /\ SetDewPoint
  /\ UNCHANGED <<learned, broker, plane>>

----------------------------------------------------------------------------
(* Time *)

OlderOffByOne(age, limit) == IF age <= limit THEN age + 1 ELSE age   \* mutant
Older(age, limit) == IF age < limit THEN age + 1 ELSE age

\* The broker's clock: what has no time left is not retained any longer.
Expiring(x) ==
  IF x = None \/ x.left = Forever THEN x
  ELSE IF x.left = 0 THEN None ELSE [x EXCEPT !.left = @ - 1]

Ageing(x) == IF x = None THEN None ELSE [x EXCEPT !.age = Older(@, Oldest)]

\* What has been here for longer than any window is as good as nothing.
Waiting(x) ==
  IF x = None \/ Older(x.since, Top) = Top THEN None
  ELSE [x EXCEPT !.since = Older(@, Top)]

\* A dew point is, after DewMaxAge.
Spending(x) ==
  IF x = None \/ x.since = DewMaxAge THEN None
  ELSE [spare |-> MaxOf(-Oldest, x.spare - 1), since |-> x.since + 1]

Tick ==
  /\ held' = [r \in Room |-> [f \in Field |-> Ageing(Expiring(held[r][f]))]]
  /\ window' = [r \in Room |-> Expiring(window[r])]
  /\ reading' = [r \in Room |-> [f \in Field |-> Ageing(Waiting(reading[r][f]))]]
  /\ external' = Older(external, DewMaxAge + 1)
  /\ dew' = Spending(dew)
  /\ UNCHANGED <<learned, told, link, maxAge>>

Next ==
  \/ \E r \in Room, f \in Field : Report(r, f)
  \/ \E r \in Room, p \in Period, published \in BOOLEAN : Learn(r, p, published)
  \/ NormaliserRestart
  \/ Connect \/ Disconnect \/ HeatctlRestart
  \/ \E r \in Room : ClearWindow(r)
  \/ ExternalDewPoint \/ Cycle \/ Tick

Spec == Init /\ [][Next]_vars

----------------------------------------------------------------------------
(* Properties *)

\* "worst-case age of a believed reading is ttl_s + room_temp_max_age_s", with the
\* learned windows in their place: however often heatctl, the normaliser and the
\* broker's sessions come and go, a reading heatctl believes is not older than the
\* window it was published with plus the one heatctl grants the room now.
ReadingAgeBounded ==
  \A r \in Room, f \in Field, default \in {Default, DewMaxAge} :
    Fresh(r, f, default) =>
      reading[r][f].age <= reading[r][f].allowance + InForce(r, default)

\* The dew point in force stems from samples that were within that bound when it
\* was last stamped, so that DewMaxAge is all that Safety adds to it.
DewAgeBounded == DewKnown => dew.spare >= -DewMaxAge

\* "heatctl works ... just blind for one sleep period after every restart, which is
\* the problem it exists to remove": whatever the broker would still serve, within
\* the window it was last told, a connected heatctl believes.
NotBlindWhileHeld ==
  \A r \in Room, f \in Field :
    link /\ held[r][f] # None /\ held[r][f].allowance <= told[r]
      => Fresh(r, f, Default)
=============================================================================
