------------------------------ MODULE ValveLoop ------------------------------
(***************************************************************************)
(* From the control cycle to the actuators and back to the operator: the    *)
(* coupler whose watchdog zeroes the outputs (external), the backend that    *)
(* recovers from its trips and reconnects (backends/modbus_direct.py), the   *)
(* cycle that writes valve by valve or falls back to its failsafe            *)
(* (Controller.run, step, failsafe in main.py) and the retained override     *)
(* topics that tell of it (mqtt_plane.py).                                   *)
(*                                                                         *)
(* A tick is a sleep between two cycles, or a transaction nobody answers.    *)
(***************************************************************************)
EXTENDS Integers, Sequences

CONSTANTS
  Valve,       \* owned_valves
  WdTime,      \* watchdog_timeout_s
  Stale,       \* stale_data_timeout_s
  Rearm,       \* watchdog_rearm_interval_s
  BackoffMax   \* reconnect_delay_max_s

ASSUME ValveLoopAssumption ==
  {WdTime, Stale, Rearm, BackoffMax} \subseteq Nat \ {0}

\* Closed, what control makes of the demands, and open: failsafe_valve_pct is 100.
Shut == 0
Regulated == 1
Open == 2

VARIABLES
  coupler,     \* status, trigger (0x1003) and outputs of the coupler
  connected,   \* the TCP session to it
  backoff, retryIn,  \* _backoff and what is left until _next_attempt
  age,         \* since last_read_ts, up to what counts as stale
  sinceArm,    \* since _wd_last_arm
  pc, todo,    \* where the cycle is, and the valves it has still to write
  candidates,  \* what _watchdog_kick_after_error has still to try
  cold,        \* circuits at which Safety.apply finds frost
  manual,      \* _valve_override: circuits an operator holds shut
  reason,      \* _failsafe_reason
  link,        \* the plane's session with the broker
  global, told, \* override/global and override/<valve> as the broker retains them
  fault        \* for the properties: what went wrong in the last step

session == <<connected, backoff, retryIn>>
clocks == <<age, sinceArm>>
house == <<cold, manual>>
plane == <<link, global, told>>
vars == <<coupler, session, clocks, pc, todo, candidates, house, reason, plane, fault>>
rest == <<candidates, house, plane>>   \* what most of the cycle leaves alone

Coupler == [wd : {"inactive", "active", "expired"}, trigger : {0, 1},
            left : 0..WdTime, out : [Valve -> {Shut, Regulated, Open}]]
Reason == {"none", "stale_data", "cycle_error"}

TypeOK ==
  /\ coupler \in Coupler
  /\ connected \in BOOLEAN /\ backoff \in 1..BackoffMax /\ retryIn \in 0..BackoffMax
  /\ age \in 0..Stale + 1 /\ sinceArm \in 0..Rearm
  /\ pc \in {"start", "wait", "read", "kick", "toggle", "status", "arm", "check",
             "write", "rest", "failsafe"}
  /\ todo \subseteq Valve /\ candidates \in {<<>>, <<0>>, <<1>>, <<1, 0>>}
  /\ pc = "toggle" => candidates # <<>>
  /\ cold \subseteq Valve /\ manual \subseteq Valve
  /\ reason \in Reason
  /\ link \in BOOLEAN /\ global \in Reason /\ told \in [Valve -> BOOLEAN]
  /\ fault \in {"none", "sensors", "other"}

Init ==
  /\ coupler = [wd |-> "inactive", trigger |-> 0, left |-> 0, out |-> [v \in Valve |-> Shut]]
  /\ connected = FALSE /\ backoff = 1 /\ retryIn = 0
  /\ age = Stale + 1 /\ sinceArm = Rearm
  /\ pc = "start" /\ todo = {} /\ candidates = <<>>
  /\ cold = {} /\ manual = {} /\ reason = "none"
  /\ link = FALSE /\ global = "none" /\ told = [v \in Valve |-> FALSE]
  /\ fault = "none"

----------------------------------------------------------------------------
(* The coupler (docs/HARDWARE.md and the fake of test_modbus_direct.py)      *)

Restarted(c) == [c EXCEPT !.wd = "active", !.left = WdTime]

\* A change of the trigger clears a trip and restarts the watchdog; a write of
\* the value it holds is refused (exception 0x03).
Refuses(c, x) == c.trigger = x
Toggled(c, x) == [Restarted(c) EXCEPT !.trigger = x]

\* An output write is a heartbeat; an expired watchdog refuses it (0x04).
Blocked(c) == c.wd = "expired"
Driven(c, v, pos) == [c EXCEPT !.out[v] = pos, !.left = IF c.wd = "active" THEN WdTime ELSE 0]

Tripped(c) ==
  IF c.wd # "active" THEN c
  ELSE [c EXCEPT !.wd = "expired", !.left = 0, !.out = [v \in Valve |-> Shut]]

Aged(c) == IF c.wd = "active" /\ c.left > 1 THEN [c EXCEPT !.left = @ - 1] ELSE Tripped(c)

Later(clock, limit) == IF clock < limit THEN clock + 1 ELSE clock

Sooner(wait) == IF wait = 0 THEN 0 ELSE wait - 1

Passes == age' = Later(age, Stale + 1) /\ sinceArm' = Later(sinceArm, Rearm)

\* A transaction is not answered, or with an error; the session may go with it.
Unanswered(c) ==
  /\ coupler' = Aged(c) /\ Passes
  /\ connected' \in {connected, FALSE} /\ UNCHANGED backoff
  /\ retryIn' = Sooner(retryIn)

Answered(c) == coupler' = c /\ UNCHANGED <<session, clocks>>

----------------------------------------------------------------------------
(* _ensure_connected, at the head of read_state and of write_valve *)

Needed == pc \in {"read", "write", "failsafe"} /\ ~connected

\* The delay is that of the next attempt, and is reset by whoever reconnects:
\* this, which arms the next attempt first, or pymodbus, which retries as well.
Connects ==
  /\ Needed
  /\ connected' = TRUE /\ backoff' = 1
  /\ retryIn' = retryIn \/ (retryIn = 0 /\ retryIn' = backoff)
  /\ UNCHANGED <<coupler, clocks, pc, todo, reason, rest>>

BacksOff ==
  /\ Needed /\ retryIn > 0
  /\ UNCHANGED <<coupler, session, clocks>>

LongerUnbounded(delay) == 2 * delay   \* mutant: without the ceiling
Longer(delay) == IF 2 * delay < BackoffMax THEN 2 * delay ELSE BackoffMax

ConnectFails ==
  /\ Needed /\ retryIn = 0
  /\ retryIn' = backoff
  /\ backoff' = Longer(backoff)
  /\ coupler' = Aged(coupler) /\ Passes /\ UNCHANGED connected

----------------------------------------------------------------------------
(* The plane *)

\* publish: dropped without a word when there is no session.
Published(topic, value) == IF link THEN value ELSE topic

PlaneConnects ==
  /\ pc # "start" /\ ~link /\ link' = TRUE
  /\ UNCHANGED <<coupler, session, clocks, pc, todo, reason, candidates, house, global, told>>

PlaneDrops ==
  /\ link /\ link' = FALSE
  /\ UNCHANGED <<coupler, session, clocks, pc, todo, reason, candidates, house, global, told>>

----------------------------------------------------------------------------
(* read_state *)

\* _publish_no_overrides: there has been no await yet in which the plane could
\* have connected.
Start ==
  /\ pc = "start" /\ pc' = "read"
  /\ global' = Published(global, "none")
  /\ told' = [v \in Valve |-> Published(told[v], FALSE)]
  /\ UNCHANGED <<coupler, session, clocks, todo, reason, candidates, house, link>>

Sleep ==
  /\ pc = "wait" /\ pc' = "read"
  /\ coupler' = Aged(coupler) /\ Passes
  /\ retryIn' = Sooner(retryIn)
  /\ UNCHANGED <<connected, backoff, todo, reason, rest>>

ReadOk ==
  /\ pc = "read" /\ connected /\ ~Blocked(coupler) /\ pc' = "status"
  /\ age' = 0
  /\ UNCHANGED <<coupler, session, sinceArm, todo, reason, rest>>

\* An error is no exception; it is followed by a kick.
ReadRefused ==
  /\ pc = "read" /\ connected /\ Blocked(coupler) /\ pc' = "kick"
  /\ Answered(coupler)
  /\ UNCHANGED <<todo, reason, rest>>

ReadFailed ==
  /\ pc = "read" /\ connected /\ pc' = "kick"
  /\ Unanswered(coupler)
  /\ UNCHANGED <<todo, reason, rest>>

ReadNotTried ==
  /\ pc = "read" /\ pc' = "check" /\ BacksOff
  /\ UNCHANGED <<todo, reason, rest>>

ReadNotConnected ==
  /\ pc = "read" /\ pc' = "check" /\ ConnectFails
  /\ UNCHANGED <<todo, reason, rest>>

----------------------------------------------------------------------------
(* _watchdog_kick_after_error and _watchdog_maintain *)

\* The other value if the trigger could be read, else both.
OthersConstant(x) == <<1>>   \* mutant: "an earlier version wrote a constant 1"
Others(x) == <<1 - x>>

TriggerRead ==
  /\ pc = "kick" /\ connected /\ pc' = "toggle"
  /\ candidates' = Others(coupler.trigger)
  /\ UNCHANGED <<coupler, session, clocks, todo, reason, house, plane>>

TriggerUnread ==
  /\ pc = "kick" /\ pc' = "toggle"
  /\ candidates' = <<1, 0>>
  /\ Unanswered(coupler)
  /\ UNCHANGED <<todo, reason, house, plane>>

\* The kick ends with the first value that is taken, or with the last one.
Tried(accepted) ==
  /\ pc = "toggle"
  /\ candidates' = IF accepted THEN <<>> ELSE Tail(candidates)
  /\ pc' = IF candidates' = <<>> THEN "check" ELSE "toggle"
  /\ UNCHANGED <<todo, reason, house, plane>>

ToggleOk ==
  /\ Tried(TRUE) /\ connected /\ ~Refuses(coupler, Head(candidates))
  /\ Answered(Toggled(coupler, Head(candidates)))

ToggleRefused ==
  /\ Tried(FALSE) /\ connected /\ Refuses(coupler, Head(candidates))
  /\ Answered(coupler)

ToggleFailed ==
  /\ Tried(FALSE)
  /\ \/ Unanswered(coupler)
     \/ /\ connected /\ ~Refuses(coupler, Head(candidates))
        /\ Unanswered(Toggled(coupler, Head(candidates)))

\* Arming is rate-limited; the read-back that follows observes only.
StatusRead ==
  /\ pc = "status" /\ connected
  /\ pc' = CASE coupler.wd = "expired" -> "kick"
             [] coupler.wd = "active" -> "check"
             [] OTHER -> IF sinceArm < Rearm THEN "check" ELSE "arm"
  /\ sinceArm' = IF pc' = "arm" THEN 0 ELSE sinceArm
  /\ UNCHANGED <<coupler, session, age, todo, reason, rest>>

StatusUnread ==
  /\ pc = "status" /\ pc' = "check"
  /\ Unanswered(coupler)
  /\ UNCHANGED <<todo, reason, rest>>

ArmOk ==
  /\ pc = "arm" /\ connected /\ pc' = "check"
  /\ Answered(Restarted(coupler))
  /\ UNCHANGED <<todo, reason, rest>>

ArmFailed ==
  /\ pc = "arm" /\ pc' = "check"
  /\ Unanswered(coupler) \/ (connected /\ Unanswered(Restarted(coupler)))
  /\ UNCHANGED <<todo, reason, rest>>

----------------------------------------------------------------------------
(* step, after read_state *)

Failsafe(why) == pc' = "failsafe" /\ todo' = Valve /\ reason' = why

TooOldUnlessConnected == ~connected /\ age > Stale   \* mutant: blind means disconnected
TooOld == age > Stale

IsStale ==
  /\ pc = "check" /\ TooOld
  /\ Failsafe("stale_data")
  /\ UNCHANGED <<coupler, session, clocks, rest>>

\* _failsafe_cleared: the clear is published when there is one to tell of.
IsFresh ==
  /\ pc = "check" /\ ~TooOld
  /\ pc' = "write" /\ todo' = Valve /\ reason' = "none"
  /\ global' = IF reason = "none" THEN global ELSE Published(global, "none")
  /\ UNCHANGED <<coupler, session, clocks, candidates, house, link, told>>

\* An operator's position beats control, and frost beats both (Safety.apply).
PositionManualFirst(v) ==   \* mutant: the override is applied after safety
  IF v \in manual THEN Shut ELSE IF v \in cold THEN Open ELSE Regulated
Position(v) == IF v \in cold THEN Open ELSE IF v \in manual THEN Shut ELSE Regulated

\* Published every cycle, overridden or not.
TellOnlyTrue(v) == told' = [told EXCEPT ![v] = @ \/ (link /\ v \in cold)]   \* mutant: "if reason:"
Tell(v) == told' = [told EXCEPT ![v] = Published(@, v \in cold)]

WriteOk(v) ==
  /\ pc = "write" /\ v \in todo /\ connected /\ ~Blocked(coupler)
  /\ Answered(Driven(coupler, v, Position(v)))
  /\ todo' = todo \ {v} /\ pc' = IF todo' = {} THEN "rest" ELSE "write"
  /\ Tell(v)
  /\ UNCHANGED <<reason, candidates, house, link, global>>

\* write_valve raises, and run catches it.
WriteRaises ==
  /\ pc = "write" /\ Failsafe("cycle_error")
  /\ UNCHANGED rest

WriteRefused == WriteRaises /\ connected /\ Blocked(coupler) /\ Answered(coupler)
WriteNotTried == WriteRaises /\ BacksOff
WriteNotConnected == WriteRaises /\ ConnectFails
WriteFailed ==
  /\ WriteRaises /\ connected
  /\ \/ Unanswered(coupler)
     \/ \E v \in todo : ~Blocked(coupler) /\ Unanswered(Driven(coupler, v, Position(v)))

\* The rest of the cycle, that of the heat pump and the unowned outputs.
RestOk ==
  /\ pc = "rest" /\ pc' = "wait"
  /\ UNCHANGED <<coupler, session, clocks, todo, reason, rest>>

RestRaises ==
  /\ pc = "rest" /\ Failsafe("cycle_error")
  /\ UNCHANGED <<coupler, session, clocks, rest>>

----------------------------------------------------------------------------
(* failsafe: write_all_valves never raises *)

Handled(v) ==
  /\ pc = "failsafe" /\ v \in todo /\ todo' = todo \ {v}
  /\ UNCHANGED <<pc, reason, rest>>

SafeOk(v) == Handled(v) /\ connected /\ ~Blocked(coupler) /\ Answered(Driven(coupler, v, Open))
SafeRefused(v) == Handled(v) /\ connected /\ Blocked(coupler) /\ Answered(coupler)
SafeNotTried(v) == Handled(v) /\ BacksOff
SafeNotConnected(v) == Handled(v) /\ ConnectFails
SafeFailed(v) ==
  /\ Handled(v) /\ connected
  /\ \/ Unanswered(coupler)
     \/ ~Blocked(coupler) /\ Unanswered(Driven(coupler, v, Open))

SafeDone ==
  /\ pc = "failsafe" /\ todo = {} /\ pc' = "wait"
  /\ global' = Published(global, reason)
  /\ UNCHANGED <<coupler, session, clocks, todo, reason, candidates, house, link, told>>

----------------------------------------------------------------------------
(* Meanwhile *)

\* A new process, with what the coupler and the broker have kept - the coupler,
\* when it took long, in its safe state.
Restart ==
  /\ connected' = FALSE /\ backoff' = 1 /\ retryIn' = 0
  /\ age' = Stale + 1 /\ sinceArm' = Rearm
  /\ pc' = "start" /\ todo' = {} /\ candidates' = <<>>
  /\ manual' = {} /\ reason' = "none" /\ link' = FALSE
  /\ coupler' \in {coupler, Tripped(coupler)}
  /\ UNCHANGED <<cold, global, told>>

\* Frost comes and goes; on_command sets an override or releases it.
HouseChanges(v) ==
  /\ \/ cold' \in {cold \cup {v}, cold \ {v}} /\ UNCHANGED manual
     \/ manual' \in {manual \cup {v}, manual \ {v}} /\ UNCHANGED cold
  /\ UNCHANGED <<coupler, session, clocks, pc, todo, reason, candidates, plane>>

Cycle ==
  \/ Start \/ Sleep \/ Connects
  \/ ReadOk \/ ReadRefused \/ ReadNotTried
  \/ TriggerRead \/ ToggleOk \/ ToggleRefused \/ StatusRead \/ ArmOk
  \/ IsStale \/ IsFresh \/ RestOk
  \/ \E v \in Valve : WriteOk(v)
  \/ WriteRefused \/ WriteNotTried
  \/ \E v \in Valve : SafeOk(v) \/ SafeRefused(v) \/ SafeNotTried(v)
  \/ SafeDone

\* Sensors that do not answer ...
SensorsFail == ReadFailed \/ TriggerUnread

\* ... and what else may go wrong in a cycle.
OtherFault ==
  \/ ReadNotConnected \/ ToggleFailed \/ StatusUnread \/ ArmFailed
  \/ WriteNotConnected \/ WriteFailed \/ RestRaises
  \/ \E v \in Valve : SafeNotConnected(v) \/ SafeFailed(v)

Loop ==
  \/ Cycle /\ fault' = "none"
  \/ SensorsFail /\ fault' = "sensors"
  \/ OtherFault /\ fault' = "other"

Environment ==
  \/ PlaneConnects \/ PlaneDrops
  \/ Restart
  \/ \E v \in Valve : HouseChanges(v)

Next == Loop \/ (Environment /\ UNCHANGED fault)

\* Every await ends, and the plane goes on trying.
Fairness == WF_vars(Loop) /\ WF_vars(PlaneConnects /\ UNCHANGED fault)

Spec == Init /\ [][Next]_vars
FairSpec == Spec /\ Fairness

----------------------------------------------------------------------------
(* Properties *)

\* Faults, restarts and changes in the house end; what they left behind stays.
Settled == <>[][~Restart /\ \A v \in Valve : ~HouseChanges(v)]_vars
Calm == Settled /\ <>[](fault = "none")

\* Every trip is cleared and every session comes back, whatever the trigger holds
\* and however far the delay has grown: in the end each cycle leaves each output
\* where control, the operator and safety want it ("recovered exactly once - and
\* then never again", _watchdog_kick_after_error).
OutputsFollow ==
  Calm => <>[](pc = "wait" => \A v \in Valve : coupler.out[v] = Position(v))

\* "Absence must be published, not implied": with a broker that stays, what the
\* topic of a circuit says becomes and remains the truth about its override.
OverridesTold ==
  Calm /\ <>[]link => <>[](pc = "wait" => \A v \in Valve : told[v] <=> v \in cold)

\* Blind fails open: while the sensors do not answer any more but writes do, every
\* output ends up open after each cycle - the watchdog, which such a cycle only
\* feeds with kicks and failsafe writes, does not keep them shut.
BlindFailsOpen ==
  Settled /\ <>[](fault # "other") /\ <>[]connected /\ <>[](pc # "status")
    => <>[](pc = "wait" => \A v \in Valve : coupler.out[v] = Open)

\* "May hold a circuit wherever they like and still cannot" keep a frozen one
\* shut: no step but a trip moves the output of such a circuit, unless to open it.
FrostOpens ==
  [][\A v \in cold : coupler'.out[v] # coupler.out[v]
       => coupler'.out[v] = Open \/ coupler'.wd = "expired"]_vars

(* What a comment says, and the code does not keep *)

\* "Without this a restart INHERITS the previous process's retained override
\* topics", "without this the last reason stayed there for ever": once all is well
\* and the broker stays, override/global says none.
GlobalOverrideCleared == Calm /\ <>[]link => <>[](pc = "wait" => global = "none")
=============================================================================
