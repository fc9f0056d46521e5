# heatctl in TLA+

A verification development for heatctl, the controller of a house with floor
heating and cooling: a Python control loop with its satellites, an air-to-water
heat pump on one Modbus link, a valve coupler on another, and an MQTT broker in
between. It holds TLA+ modules translated from the source, TLC configurations that
check them on small instances, and theorems that TLAPS checks for every value of
the constants.

## 1. Inventory

| Component | State it keeps | Operations | Interacts with |
|---|---|---|---|
| Control loop, `heatctl/main.py` | mode, setpoints, `_off_checked`, `_sp_before_off`, valve overrides, failsafe reason | `step` once a second: read, decide, write valves one by one, then source power, stale OFF, setpoint trim, capacity, energy shadow, pump mode; `failsafe`; MQTT callbacks `on_command` | everything below; MQTT callbacks run between any two awaits of a cycle |
| Heat pump client, `heatctl/heatpump.py`, `heatpump_map.py` | cache of the unit's registers, hourly write log, asyncio lock, connection | poll (status, then the whole space in chunks, or the control block), write with no-op check and budget, read-modify-write of bits | control loop, one task per MQTT command, the unit's flash and its own panel |
| Capacity loop, `heatctl/capacity.py` | ages of the last stop, lowering and raise, margin history | one decision per cycle: lower, raise, stop, resume | P04 and R32 through the client |
| Safety layer, `heatctl/safety.py` | dew point and its age | valve overrides in order of priority, condensation limit | MQTT plane, control loop |
| RL gate, `heatctl/rl_gate.py` | per circuit: opened since, last trusted, held position, flushing | `action`, `note_control`, `record_command` | return loop, energy shadow, valve writes |
| Valve backends, `heatctl/backends/` | connection, watchdog flags, last commands | read sensors, write a valve, arm and clear the coupler's watchdog | the coupler, which zeroes its outputs without writes |
| MQTT plane, `heatctl/mqtt_plane.py`, `dewpoint.py` | readings with ages, learned windows, subscriptions | dispatch, `publish`, dew point as a maximum over rooms | broker, safety, demand |
| Demand and mode, `heatctl/demand.py` | mode candidate and its dwell, engage state | pick mode, engage the source, flow floor | control loop |
| Setpoint trim, `heatctl/setpoint.py` | last step, bounds, direct mode | next water setpoint | P04 |
| Distribution, PID, energy, `heatctl/distribution.py`, `pid.py`, `energy.py` | integrators, meters | positions, heat sums | control loop |
| Normaliser, `normaliser/main.py` | last sample per room, learned window | republish with an expiry, learn a device's period | sensors, broker, MQTT plane |
| Journal, `journal/main.py` | open day file, record in hand, children | write, roll at midnight, compress, prune | stdin, file system |
| InfluxDB bridge, `mqtt2influx/main.py` | pending batch, counters | batch, post with one retry, drop | broker, database |
| Optimizer, `optimizer/` | offline models | estimate, replay | recorded data |
| Tools, deployment, `tools/`, `deploy/` | none | scripts run by hand; containers and supervisors | MQTT, the host |

What makes the system hard. One asyncio process interleaves the control cycle, the
poll and a task per MQTT command at every await, over one cache and one lock. Writes
go to flash: they survive a crash of the controller that made them, cost wear, and
may be stored although their answer is lost. The cache is a past of the unit. The
coupler acts by itself when the controller is away. Readings age; some are retained
by the broker and come back. The hazards are listed one by one, at their lines, in
`PROJECT.json`.

What makes each component correct:

- client: a command changes no bit but those it names; the write limit; the cache converges
  to the unit; no command waits for ever;
- compressor protection: water below the dew point limit stops the compressor, no
  restart before the anti-short-cycle time, no stop for ever, OFF is never taken for
  a setpoint, nothing is written before the first read;
- RL gate: a return is believed only when water has moved, and no circuit is locked
  out;
- dew point and normaliser: the age of a reading in force is bounded, and blindness
  is noticed; overrides: what the broker retains is the present state;
- mode picker: no flapping; trim: bounded and rate limited; flow floor: enough flow,
  found by a terminating loop;
- coupler watchdog: a trip is cleared, whatever its toggle register holds;
- journal and bridge: records are kept whole, and losses are bounded and known.

## 2. Modules

| Module | Models | Extends |
|---|---|---|
| `RegisterCache` | abstract: what the client promises about one register | |
| `HeatPump`, `MC_HeatPump`, `HeatPumpProofs` | the client: tasks, lock, poll, cache, budget, the unit's flash | |
| `CompressorGuard`, `MC_CompressorGuard`, `CompressorGuardProofs` | the functions of the control cycle that act on P04 | instantiates `RegisterCache` |
| `ReturnGate`, `MC_ReturnGate`, `ReturnGateProofs` | the RL gate within control cycles, valve writes, failsafe, the coupler | |
| `ValveLoop`, `MC_ValveLoop`, `ValveLoopProofs` | cycle, backend and coupler for the valves; failsafe; retained override topics | |
| `Freshness`, `MC_Freshness`, `FreshnessProofs` | the age of readings, from the sensor to the dew point in force | |
| `Ages` | ages of time stamps | |
| `Demand` | mode picker and request for the source | `Ages` |
| `WaterSetpoint` | the setpoint trim | `Ages` |
| `Source`, `SourceProofs` | the control cycle around the two, and the unit | `Demand`, `WaterSetpoint` |
| `FlowFloor` | distribution and the pump's minimum flow | |
| `Resume` | the setpoint a stopped compressor is resumed with | |
| `MC_Source`, `PartsProofs` | the three, side by side; proofs about the last two | `Source`, `FlowFloor`, `Resume` |
| `Journal` | the journal's files and compressions | |
| `InfluxBridge` | the forwarder's batches | |
| `MC_Recorders`, `RecordersProofs` | the two, one at a time | `Journal`, `InfluxBridge` |
| `MC_Surroundings` | valves, gate and recorders, one at a time | `ValveLoop`, `ReturnGate`, `MC_Recorders` |

Proof modules extend their module and `TLAPS`; MC modules give the instances. Names of
`ReturnGate`, `Journal` and `InfluxBridge` that other modules also use have a prefix
(`GateInit`, `JournalNext`, ...), so that one module can extend them all.

### HeatPump

A step is a stretch of code between two awaits that can suspend. A writer is
`idle`, `admitted` (its value computed, no-op and budget checked: all of that is
before the first await) or `queued` on the lock of `_txn`; the poll is one more
client of the same FIFO lock, and re-queues for each of its transactions. `config`
is `HeatPump.config`; `buf` holds what a read of the whole space has collected so
far; with differences to publish the read ends two awaits later than its last answer
(`LastChunkReply`, `DiffPublished`). A write is acknowledged (`WriteOk`), stored with
its answer lost (`WriteLost`), or fails. A register is the set of its bits that are
1, so that a whole value and a read-modify-write are one kind of command. The panel
changes the bits in `Panel`, which may be bits heatctl has no name for, whenever it likes.
`disputed` observes which bits of a register the panel has changed since all its copies -
in the cache, in a read, in commands under way - last agreed.

### RegisterCache and CompressorGuard

`RegisterCache` is the client seen from one register: an acknowledged write sets unit
and cache together, everything else that changes the unit is unseen, and a read
installs what it sampled before. `HeatPump` implements it for every register
(`EachRegisterIsCached` in run `HeatPump_safety`, theorem `ImplementsRegisterCache`),
and `CompressorGuard` takes P04 from it, instead of the whole client.

`CompressorGuard` follows a cycle through `pc`: stale-OFF clearing, setpoint trim
(decision, then write), capacity (decision, then stop, resume or ceiling), with a
label `write` while a write of P04 is under way. Between any two of these the poll
may sample or install, a mode command may arrive, the process may die. In heating the
trim computes a target for another register (`heating`), which a mode command before the
write turns into a write of P04. Ages count
cycles and stop at the time they are compared with. `offFor`, `stopper` and `hidden` are
observers: how long P04 has been OFF in the unit; who ordered that - the capacity
loop ("loop", and "armed" when the clearing of a stale OFF is due again), the refusal or
fallback of `_trim_capacity`, or nobody this process knows; and whether the trim under way
was decided on a cache that does not show the OFF.
Left open on purpose: which setpoint the trim asks for, whether a raise is due
(its clock and veto only withhold it), and the arithmetic of the restart dead zone
(any setpoint not above the one kept; that arithmetic is `ResumeAt` in `Resume`).

### ReturnGate

One action per way a cycle can go: `FullCycle` (all valves written and recorded),
`AbortedCycle` (a write fails and the failsafe follows), `StaleCycle` (skipped for the
failsafe), and the coupler's own `Expire`. A position is `open` at or above
`min_opening_pct`. What drives a circuit, its PID output, who raises it and who shuts
it are inputs of the cycle. `flow` is the truth the gate cannot see: how long the
output has been open. `behind` observes what nobody told the gate: circuits it counts
as open and that a lost answer or the coupler has shut since. The energy shadow, which
asks the gate again at the end of a cycle, is part of it.

### ValveLoop

The cycle transaction by transaction, which `ReturnGate` takes in one step. `pc` goes
from the process's start through `wait`, `read` (`_ensure_connected`, `read_state`),
`check` (is the sensor data stale?), `write` valve by valve, `rest` (whatever else the
cycle does, which may raise) or to `failsafe`. A failed input read detours through
`kick` and `toggle` (`_watchdog_kick_after_error`: try the trigger's other value, and
with an unreadable trigger both); a good one through `status` and `arm`. `coupler` is
the external device: a watchdog that is fed by writes of outputs, restarted by any
change of the toggle register, and that zeroes the outputs and refuses writes when it
expires. `backoff` and `retryIn` are the reconnect delay, shared by reads and writes.
`global` and `told` are the retained topics of the broker; `Published` drops a
publication without a session, as `ControlPlane.publish` does. A tick is a sleep
between cycles or a transaction without an answer, and `fault` records what went wrong
in the last step of the loop, for the fairness of the properties.

### Freshness

One tick ages everything; the actions are the normaliser's (`Report`, `Learn` with a
publication that may be lost, `NormaliserRestart`), heatctl's session with the broker
(`Connect` redelivers what is retained and stamps it with its arrival, `Disconnect`),
`HeatctlRestart`, an operator who clears a retained window (`ClearWindow`), a dew point
from outside and the control cycle's refresh of the local one (`Cycle`). `held` and
`window` are the broker's retained topics with the time they have left. `age` in a
reading is the truth - since the sample was taken - that no process knows; `since`
is what heatctl counts. A dew point is `spare`: for how long the samples it is made of
could still have been believed when it was stamped.

### Source, Demand, WaterSetpoint

`Source` is the cycle from `DemandController.step` to `_sync_pump_mode`, in steps
between awaits: `Decide` (mode, then the request), `HoldPower`, `Trim` (decision),
`WriteSetpoint` (after the publication in between), the energy shadow in two steps
(`ObserveExcess`, and after its publications `ObserveHouseTarget`), `SyncPumpMode`;
`Fails` ends a cycle anywhere. Mode commands, the first read of the unit, restarts and `OtherHands`
- `hp/set` commands, the panel, the capacity loop's writes of P04 - come in between. `PickMode` and `HoldOn` are `demand.py`; `WaterStep`
is `setpoint.py`: the direct law with its confirmation, hysteresis and rate limit, or
the walk when the house has no target. The registers are read at once: what the cache
does is the subject of `HeatPump` and `CompressorGuard`, and OFF the latter's.
`agreed`, `held` and `fault` are observers: the age of the last verdict for anything
but a season, of the last wish against a direction, and whether the last step was a
disturbance. The energy model and the house appear as inputs (`excess`, `house`,
`Deviation`).

### FlowFloor, Resume

`FlowFloor` is what a cycle makes of the rooms' demands before safety: `Distribute` shares
them out relative to a peak that follows the largest one by a bounded step per cycle
(`Distributor`'s only memory), rounded to the backend's grain; `EnforceFlowFloor` raises
rooms that want the mode in proportion until one clips, shares the rest out again, and then
opens satisfied rooms, neediest group first. A step is one iteration of its loops: the
circuits that clip stop at full (`WillingClip`) or all take their share (`WillingShare`),
then a group of satisfied rooms is picked (`NextGroup`) and raised by equal steps until the
first of them is full (`RaiseGroup`); `stage` says which loop it is in, `deficit` what is
missing. Openings are whole multiples of a unit so fine that all divisions are exact, which
leaves out only the tolerance the code needs for its floats: a step that would leave a
remainder is not enabled, and the run, which checks for deadlock, shows that none is met.
Full is assumed to be a multiple of the backend's grain, or rounding could pass it.

`Resume` is the end of `_trim_capacity` on tenths of a degree: `Stops` keeps the setpoint
there is, `Resumes` writes one that clears the unit's restart dead zone for the present
return water, clamped and rounded half to even. The kept setpoint of one resume is what the
one before left, so a sequence of them ratchets down unless the trim raises it.

### Journal, InfluxBridge

`Journal`: a record is complete when the next one begins (`Write` commits the pending
one, and rolls to the day of its time stamp, whichever way that lies), is flushed at
times, and is lost to `Kill` before. Each closed day's gzip is a process of its own
(`GzipReads`, `GzipEnds`, `GzipFails`), which truncates the `.gz` there may be and unlinks
the `.log` whoever has it open; `linked` says whether the open file still has its name.
`reopened` and `leftover` are observers.

`InfluxBridge`: points are counted. `run` gathers them (`Message`), flushes when there are
enough or the last flush is old, and waits for the thread that writes; an attempt is
answered, fails, is retried once, or raises something `write` does not catch. `inbox` is
what the MQTT client has received meanwhile. `hangs` chooses a server that lets attempts
time out or one that never does.

## 3. Runs

| Run | Question | Result |
|---|---|---|
| `HeatPump_safety` | types; overshoot of the hard limit below the number of tasks; a command changes a foreign bit only back, after a change at the panel the client has not caught up with; every register implements `RegisterCache`; commands end; the cache converges | holds, 171 816 states |
| `HeatPump_bits` | "Set one named bit" | violated |
| `CompressorGuard_safety` | types, the sentinel never kept as a setpoint; P04 never written unread, and no restart within `min_off_s` of a stop by the capacity loop, but for the exceptions told below | holds, 2.0 million states |
| `CompressorGuard_live` | water with too low a margin is stopped, and with the loop off water below the limit; a stop is not for ever | holds, 89 633 states |
| `CompressorGuard_blindcycle` | no restart within `min_off_s` of any stop this process ordered | violated |
| `ReturnGate_outage` | moving water, after an outage | violated |
| `ValveLoop_fossil` | once all is well, `override/global` says so | violated |
| `Freshness_ages` | how old may a reading and a dew point in force be; is heatctl ever blinder than the broker | holds, 1.3 million states |
| `Source_mode_and_water` | no mode switch against a verdict of the dwell; the season, the unit and the setpoint follow; no direct move against a verdict of the confirmation time; a resume starts the unit; the pump has its flow, satisfied rooms give it last, and the loops that raise it get somewhere | holds, 342 667 states |
| `Source_resume_edge` | a resume leaves a setpoint past the edge, "not on it" | violated |
| `Surroundings_outputs_gate_records` | valves: after any trips, faults, restarts and lost sessions the outputs are where they should be and the circuits' override topics true; blind fails open; frost beats an operator. Gate: the return loop runs on moving water unless a circuit was shut behind the gate's back; no lock-out. Recorders: records are kept but for named causes, logs are archived but for those a dead process or a failed gzip leaves; points are accounted for, none waits for ever, the backlog is bounded while the server answers | holds, 168 346 states |
| `Journal_startup` | at its start the journal archives what an earlier process left | violated |

The violated ones state what the code's own comments and tests say; `PROJECT.json`
quotes the lines and tells the counterexamples:

- `HeatPump_bits`: two commands for two bits of one register read the same cached
  word, and the second write undoes the bit of the first.
- `CompressorGuard_blindcycle`: the stop for an unknown dew point is written by
  `_trim_capacity` itself, so the clock of the anti-short-cycle wait never starts.
- `ReturnGate_outage`: the coupler's watchdog shuts the valves, the gate's clock goes
  on, and the first cycle after the outage measures standing water.
- `ValveLoop_fossil`: a retained failsafe reason is cleared once, without a session
  that is dropped, and neither this process nor the next one repeats it.
- `Source_resume_edge`: half a degree past the edge is rounded half to even, so that with
  return water of 22.0 degrees and 2 K of differential 19.5 becomes 20, on the edge. What
  holds: `ResumeStarts`, on the edge in this one case, and never short of it.
- `Journal_startup`: the first roll of a process closes no day, so it starts no gzip, and
  `prune` deletes `.gz` files only: the `.log` of a day that ended while the journal was off
  is neither archived nor expired.

### Other behaviour the models show, or leave out

No run is kept for these; most are short behaviours of a module, and the weaker
property that does hold is checked.

Heat pump and compressor:

- A read of the whole space that sampled a register before an acknowledged write
  installs the old value after it (`heatpump.py:509`). The next write of that old
  value is then dropped as a no-op although the unit holds another. What holds:
  `SelfHeals`, the next undisturbed reads repair it.
- The hard limit is compared before the awaits of a write and counted after its
  answer (`heatpump.py:199`, `heatpump.py:232-235`), so commands under way together
  pass it. What holds: `OvershootBounded`.
- A bit that heatctl has no name for is rewritten with the rest of its register from the
  cached word (`heatpump.py:364-374`, `383-389`), so a change at the panel since the last
  read is undone: the "read-modify-write race" of `docs/HEATPUMP.md:481-485`. What holds:
  `ForeignBitsKept`, a command changes such a bit back only while some copy of the register
  - cached, being read, or in a command under way - is older than the panel's change.
- Any mode command, also for the mode in force, resets `_off_checked`
  (`main.py:226`); the next cycle takes a stop of this very process for one that a
  dead process left, and clears it (`main.py:1117`), inside `min_off_s` too and although
  the clearing "Runs once" (`main.py:1115`). The same happens when the loop stops the
  compressor in the very cycle in which the first read of the registers ends after the
  check. What holds: the compressor is stopped again (`ColdWaterIsStopped`), and a resume
  still waits for `min_off_s` (`AntiShortCycle`, which exempts the clearing and the write
  of the next but one item once a stop is "armed" like this).
- With a cache behind the unit the setpoint trim takes a stopped machine for a
  running one and writes a setpoint over OFF (`main.py:1211`), inside `min_off_s` too,
  although restarting "is the capacity loop's decision, not this one's"
  (`main.py:1149-1150`). `AntiShortCycle` exempts the trim that was decided on such a cache
  (`hidden`), and no other.
- In heating the trim does not ask whether the registers have been read (`main.py:1136-1156`);
  the heating setpoint may be known from an acknowledged `hp/set` command. If a mode command
  arrives during its publications (`main.py:1192`, `1207`), the target goes to P04
  (`main.py:1215-1216`), whose value is still unknown. `NeverWritesUnread` exempts this write.
- With the capacity loop disabled only water below the limit itself stops the compressor
  (`main.py:391-399`), not a margin below the dead band: `MustStop` says so.

Valves and topics:

- A failed or refused input read kicks the watchdog by its trigger without writing an
  output, so a coupler that answers nothing but the toggle never trips. What holds:
  `BlindFailsOpen`, the failsafe opens the outputs.
- A lost window publication in `_learn_window` (`normaliser/main.py:335`) is not
  repeated while the device reports the same period. What holds: `NotBlindWhileHeld`
  relative to the window that did reach the broker.
- `float()` at `main.py:274` is unguarded inside the plane's message loop: a retained
  setpoint that is no number ends every session before what is retained for the rooms
  is dispatched. Payloads are not modelled, so this is a hazard without a property.
- Not modelled: the read-back (`modbus_direct.py`), which publishes a mismatch and never
  its end (`main.py:1388`); the last will against `status` at a reconnect.

Mode and setpoint:

- The dwell of the mode picker runs on through blind cycles and an operator's off, so
  that "the average must persist this long" (`config.yaml:1048`) is not measured. What
  holds: `SwitchIsSettled`, no verdict of the dwell was for anything else.
- The confirmation clock of a wish survives a change of mode and an OFF
  (`setpoint.py:469`): right after it a wish may be written at once. `ConfirmedWish`
  exempts exactly that.
- The trim computes a target for the mode of the cycle, publishes, and writes through
  a method that looks at the mode again (`main.py:1218`): with a mode command in
  between a heating target goes to the cooling setpoint, also over an OFF. What holds:
  `SetpointRepaired`.
- `_last_change` is stamped although the write was refused, the minimum times of the
  source start with the decision and are forgotten by a restart, and
  `_last_house_excess_wh` has no age: `SeasonFollows` and `UnitFollows` hold all the same.

Recorders:

- After the clock went back to a day that was compressed, `gzip -f` overwrites that day's
  archive; a far-future time stamp rolls, and prunes everything older. `RecordsKept` names
  both as the only such causes.
- "The next roll retries" (`journal/main.py:261`): the next roll compresses the day it
  closes and no other, so a `.log` whose gzip failed stays, and is not pruned either. So does
  one that a process left at its end, see `Journal_startup`. What holds: `LogsAreArchived`,
  only such files stay: while a process goes on and its gzips succeed, all is archived.
- `last_flush` is stamped before the write is awaited (`mqtt2influx/main.py:248`). With a
  server that lets attempts time out a flush takes longer than the interval, every
  message becomes a flush of its own, and the client's queue grows, against "It drops
  rather than grows" (`mqtt2influx/main.py:49`). What holds: `BacklogBounded` while it
  does not.

### Bounds

- `HeatPump`: two tasks are enough for a race between computing and storing a value,
  and for an overshoot of one; three chunks put the awaits before, in and after the
  chunk of a register; commands and the panel
  work on one register at a time (one of the control block, written bit by bit, or P04,
  written whole and read by full reads only) while the other is read along, since commands
  on different registers share only the lock and the budget, which the tasks share
  anyway; `FullEvery` = 1 alternates full reads and control-block reads. A named bit
  and a foreign one, both of which the panel changes, or two named bits, are
  what a lost update needs.
- `CompressorGuard`: two cooling setpoints and one heating setpoint beside OFF - what the
  properties tell apart is OFF, not OFF and unknown, and a trim that differs from the cache
  needs two. Clocks of two cycles, so that
  each can be running, expired, or reset, and a poll every cycle; readings are low,
  spare, and absent (which leads nowhere, as a reading inside the dead band does); the
  liveness run has a low margin with water above the limit, and one below it. Capacity
  ceilings 0 and 1: at the floor and above it. The liveness run has one cooling setpoint and
  leaves out the hands (the properties assume that they rest anyway; reads, lost answers and
  crashes already put every value behind the cache) and the heating setpoint.
- `ReturnGate`: one circuit - the gates of two circuits share nothing but the faults
  of a cycle, which a single circuit sees from both sides (its own write failed, or
  another's, before or after it). The clocks keep the order of `config.yaml`:
  watchdog shorter than settling, settling shorter than the flush interval (4 cycles, and 5 in `ReturnGate_outage`).
- `ValveLoop`: one circuit, its neighbours' faults being its own `RestRaises`; the
  watchdog (2) is over before the data is stale (3), as configured, and the back-off
  doubles once and then stands.
- `Freshness`: one room, as rooms share nothing but the maximum that `DewSources` picks
  from; two windows, the default and the ceiling; `Oldest` = 7 is above every sum of
  windows in a property, and the assumption on it says so.
- `Source`: two installations side by side - mode and power in one, commanded modes and
  trim in the other - since the two halves meet only in the mode, which both have. All
  intervals are one or two cycles, so that each can be running, over or reset; `Every` = 1
  has the energy model in each cycle, and `fault`-ridden cycles without it.
- `FlowFloor`: three circuits and one without an actuator, three levels of demand, four
  needs, one of them unknown, and every peak that its step of two units reaches - proportional raises
  that clip one after the other, and two groups of satisfied rooms.
- `Resume`: return water from 17.0 to 32.0 degrees in tenths, every setpoint within
  safety's bounds (15 to 28), differentials of 2 to 4 K.
- `Recorders`: three days with one retained, so that a day is pruned, compressed and
  re-opened; four records (the only bound that ends behaviours, hence
  `CHECK_DEADLOCK FALSE`). Batches of two, up to two messages in a tick, an inbox counted
  up to six, above the bound it is compared with. The bridge is assumed to flush less often
  than once a second, a tick, and to get no more in one than a batch holds.

### Fairness

- `HeatPump`: a task that is ready runs, and a transaction ends (weak fairness on
  replies: the client has a timeout). Nothing obliges a command, the panel or the
  clock of the write window.
- `CompressorGuard`: the cycle and the poll go on (weak), and of writes, reads and
  cycles tried for ever some succeed (strong: a lossy link, not a dead one).
  Disturbances - mode commands, crashes - are not fair; the liveness properties
  assume that they end.
- `ReturnGate`: strong fairness of `FullCycle`: the coupler answers a whole cycle now
  and then.
- `ValveLoop`: every await of the loop ends, with or without an answer, and the plane
  goes on trying to connect (both weak: loops that catch everything and sleep). That
  faults and restarts end is an assumption of the properties.
- `Source`: the loop goes on and the unit is read once after a start (weak). That a
  verdict lasts is an assumption of the properties.
- `InfluxBridge`: `run` goes on, every await of it having a timeout, and time passes with
  messages again and again - a plant publishes in every cycle. The journal has none: its
  properties are invariants.

## 4. Proofs

`HeatPumpProofs`, for every number of tasks, registers, bits and chunks, every set of
commands and every limit:

- `Typed`: `Spec => []TypeOK`.
- `Overshoot`: `OvershootBounded`. The bound on the counter alone is not inductive:
  the step that counts a write needs the writer to have been counted as under way,
  so the invariant adds up both, and a request adds one only below the limit, when
  at most all tasks but its own are under way.
- `ForeignKept`: `TrackSpec => ForeignBitsKept`, where `TrackSpec` is `Spec` with its observer
  `disputed`. Inductive with: the cached word, the collected sample and the word of every
  command under way agree with the unit on all foreign bits that are not disputed
  (`CopiesAgree`), since a bit is disputed from a change at the panel until they all agree
  again.
- `ImplementsRegisterCache`: initial states map to initial states and every step to a
  step or a stutter of each register, with the invariant that a sample is pending
  only during a full read.
- `Released`: `Spec => []LockIsReleased`, and `InTurn`: `Spec => FirstComeFirstServed`, the
  safety half of `RequestsFinish`: whoever holds the lock of `_txn` has an answer to come,
  nobody overtakes, and there are never more places in the queue than clients. The invariant
  `LockInv` says that the queue holds exactly those that are in a transaction, each of them
  once: no outcome of a transaction keeps the lock, none gives up another's place. These two
  are stated with their proofs; no run checks them. TLC checks what follows with fairness.

`CompressorGuardProofs`, for every set of setpoints, modes and readings, every dead band
and all clocks:

- `Typed`: `Spec => []TypeOK`, whose point is that OFF is never kept as the setpoint
  to resume to. Not inductive alone: a decision is one step and its write another,
  so `Args` says what each label implies for the value under way.
- `NoUnreadWrite`: `NeverWritesUnread`. The invariant carries "P04 is cached"
  from the first full read to every label that can lead to a write, but the heating one.
- `StopLasts`: `AntiShortCycle`. The invariant compares the two clocks: while
  P04 is OFF by order of the loop, it has been so for at least as long as the loop's
  own clock says, and a write of OFF still under way has a clock at zero; and it says which
  labels can restart a compressor that the cache shows to be stopped (`WhoWrites`): the
  resume, and what a mode command has armed. Ages are
  counted in cycles, and a write ends in the cycle that decided it; the few hundred
  milliseconds between the stamp and the unit's flash are below that.

`ReturnGateProofs`, for every set of circuits and all clocks:

- `Typed`: `GateSpec => []GateTypeOK`.
- `MovingWater`: `GateSpec => MeasuresMovingWater`, through `InStep`: a circuit the gate
  believes open, and that is not in `behind`, is open and has been for at least as
  long as the gate counts. The exception is needed: `ReturnGate_outage`.

`FreshnessProofs`, for every set of rooms, all windows and ceilings that are ordered as the
assumption says:

- `Typed`: `Spec => []TypeOK`.
- `ReadingAges`: `ReadingAgeBounded`, and `DewAges`: `DewAgeBounded`. The bounds follow from
  what the broker enforces: what is left of a retained reading and its age add up to its
  window at most, so that heatctl's count starts at a sample no older than that; a dew point's
  spare time and its count add up likewise.
- `Sight`: `NotBlindWhileHeld`, for which every retained reading is one that a connected
  heatctl has, stamped no earlier than its sample, and the window in force is the one last
  told.

`SourceProofs`, for every installation, all bounds and intervals:

- `Typed`: `Spec => []TypeOK`.
- `Settled`: `SwitchIsSettled`. The candidate's clock is no older than the last verdict
  against the candidate, since each such verdict clears it or starts another.
- `Confirmed`: `ConfirmedWish`. The same for the pending wish, with two facts more: a
  verdict's age is only ever reset by the trim, and a decision of the trim ends the wish.

`ValveLoopProofs`, for every set of circuits and all clocks:

- `Typed`: `Spec => []TypeOK`: above all that the reconnect delay, doubled by one action and
  waited for by another, stays below its ceiling, and that a kick writes a toggle value.
- `Frost`: `Spec => FrostOpens`. A write of an output comes from the cycle, which opens a
  circuit with frost whatever the candidate position, or from the failsafe, which opens them
  all; the coupler itself moves outputs only when it trips, and ageing does nothing else
  (`AgedSpares`).
- `Sight`: `Spec => ControlSees`: without sensors that are fresh, outputs only open, or fall
  shut in a trip. The invariant `Sees` carries the check of their age to every write of the
  cycle that is still tried: no time passes between two writes unless one of them failed, and
  then the failsafe follows. It is stated with its proof; no run checks it.

`RecordersProofs`, for every number of days and records, every rate, batch and interval:

- `Typed`: `RecordersSpec => []RecordersTypeOK`, for which a batch never exceeds `batch_max` because one that
  reaches it is flushed by the same message.
- `Kept`: `RecordsKept`, and `Archived`: `LogsAreArchived`. Inductive with: a day has its
  `.log`, its `.gz`, or a gzip at work between the two (`Alone`), and what is written goes to
  the `.log` of the day that is open (`OpenFile`).
- `Accounting`: `PointsAccounted`, through every place where `write` may end.
- `Bounded`: `BacklogBounded`, with `HeldBack`: what the client has received while attempts
  take no time is no more than came in the ticks since `run` last looked.

`PartsProofs`, for every set of circuits, all demands, needs and thresholds, and for all
bounds of the setpoint, waters and differentials:

- `FlowKept`: `FlowFloorKept`, and `ComeLast`: `SatisfiedComeLast`. Neither says anything
  before the floor is done; the invariant `FloorInv` says what holds at every iteration:
  what is there and what is missing add up to the target (`Accounts`), in the first phase every
  willing circuit outside the group is full (`WillingFirst`), in the second every circuit that
  is neither in the group nor yet to come (`SatisfiedNext`), and the order of the willing ones
  stands (`Allocated`). So with something still missing at the end every circuit would be full,
  against `Accounts`. Behind a step are three lemmas about shares in proportion: the circuits
  that clip lack no more than the deficit (`ClippedFits`), one that is opened further than a
  circuit that clips clips too (`ClippedInOrder`), and exact parts add up to the deficit and fit
  (`PartsFit`).
- `LoopsEnd`: `FloorProgresses`, from the same lemmas; since circuits are finitely many, the
  loops of `enforce_flow_floor` end.
- `Starts`: `ResumeStarts`: rounding moves a setpoint by half a degree at most, which is what
  the resume leaves for it, and by the whole half up only to an even setpoint, when the water
  has whole degrees: then, and only then, it is on the edge.
- `PartsAlone`: a behaviour of `MC_Source` is one of each part alone; `PartsTyped`:
  `MCSpec => []PartsTypeOK`.

Sums are folds over finite sets (`MapThenSumSet`), about which the library proves nothing
that the provers here can use. `PartsProofs` derives what it needs (`TotalRemove`, `TotalSum`,
`TotalMonotonic`, `TotalSplit`, ...) from an induction over the subsets of a finite set that
is stated with a set of subsets instead of a predicate (`SetInduction`).

Assumptions are the `ASSUME`s on the constants, which TLC evaluates in every run.

Every invariant and every safety property of a step that a passing run checks is a theorem,
the refinement of `RegisterCache` included. Only model-checked is what needs fairness, which
the prover does not handle: `RequestsFinish`, `SelfHeals`, `ColdWaterIsStopped`,
`StopIsNotForEver`, `GateNotLockedOut`, `OutputsFollow`, `OverridesTold`, `BlindFailsOpen`,
`SeasonFollows`, `UnitFollows`, `SetpointRepaired`, `PointsForwarded`. So is, implicitly, that
no module but the journal's can come to a stop.

## 5. Not modelled, and why

- Numerical parts: PID, the integration of the energy meter, decoding of registers, the
  optimizer's estimators. Their results appear as inputs chosen freely.
- Pure I/O and wording: telemetry, the decision database, log lines, line protocol,
  adapters for device payloads, MQTT discovery.
- Payloads of commands, the last will, the read-back of outputs.
- Reconnecting of the heat pump's Modbus client (`_connect`, `heatpump.py:126`): it is
  outside the lock, so that a task that reconnects may close the link another one waits
  on; what that does to the pending transaction is up to the library. A transaction that
  fails is in the model whatever the cause.
- `mqtt_io`, the other backend, forwards topics and keeps no watchdog.
- Optimizer, tools and deployment scripts: offline, or run by hand; a supervisor's
  restart is an action of each module.

## 6. Plan

What is left, in order of importance:

1. `CapacityClocks`: the raise clock and veto that `CompressorGuard` leaves open, with
   `CompressorGuard`'s choice as its abstraction.
2. `ReturnGate`'s coupler as an abstraction of `ValveLoop`'s.
3. The safety part of more liveness properties, as `Released` and `InTurn` are that of
   `RequestsFinish`: what each disturbance leaves true, as invariants that can be proved.
4. The payloads of commands and the sessions they may end (`main.py:274`).

In a module that is proved about, recursion is written as steps or as a fold.
