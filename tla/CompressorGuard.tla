-------------------------- MODULE CompressorGuard --------------------------
(***************************************************************************)
(* Who stops the compressor, and who starts it again.  The unit has one    *)
(* lever that leaves its pump running: P04 (0x0090) holds either the       *)
(* cooling setpoint or the sentinel Off.  Every control cycle three parts  *)
(* of heatctl/main.py act on it in turn - _clear_stale_cooling_off,        *)
(* _trim_water_setpoint and _trim_capacity with heatctl/capacity.py -      *)
(* while the polling task refreshes the cache they all read, and MQTT      *)
(* commands change the mode between any two of their awaits.               *)
(*                                                                         *)
(* P04 and its cached copy behave as RegisterCache, which HeatPump         *)
(* implements.  Time is counted in control cycles.                         *)
(***************************************************************************)
EXTENDS Integers

CONSTANTS
  Setpoint,    \* logical cooling setpoints, in whole degrees
  Heating,     \* heating setpoints below Off
  Off,         \* COOLING_OFF_C
  Default,     \* return_temp_setpoint_cooling_c
  Unread,      \* P04 is not in the cache
  None,        \* Python's None
  Mode,        \* plant modes in play
  Enabled,     \* values that control.capacity.enabled may have
  Readings,    \* the supply's margin less the target it is held to, or None
  Blind,       \* whether the dew point may be unknown, known, or both
  Deadband,    \* deadband_c
  Target,      \* target_margin_c
  Top,         \* frequency ceilings are 0..Top; 0 is min_hz
  MinOff,      \* min_off_s, in cycles
  Settle,      \* lower_settle_s, in cycles
  PollGap,     \* config_poll_interval_s, in cycles
  Faulty,      \* whether writes and reads may fail or lose their answer
  Commands,    \* whether the mode is changed, by MQTT or by auto_mode
  Crashes,     \* whether heatctl may die and be restarted
  Hands        \* whether P04 is set at the panel or by hp/set

Value == Setpoint \cup Heating \cup {Off}

ASSUME GuardAssumption ==
  /\ Off \in Nat
  /\ Setpoint \cup Heating \subseteq 0..(Off - 1)
  /\ Default \in Setpoint
  /\ Unread \notin Value
  /\ None \notin Value
  /\ "cooling" \in Mode
  /\ Blind \subseteq BOOLEAN
  /\ Readings \subseteq Int \cup {None}
  /\ Deadband \in Nat /\ Target \in Nat
  /\ Top \in Nat /\ MinOff \in Nat /\ Settle \in Nat /\ PollGap \in Nat
  /\ Enabled \subseteq BOOLEAN
  /\ {Faulty, Commands, Crashes, Hands} \subseteq BOOLEAN

VARIABLES
  dev, cache, sample,   \* P04: see RegisterCache
  seen,                 \* HeatPump._config_seen
  sinceRead,            \* cycles since a full read ended, up to PollGap
  mode,                 \* Controller.mode
  offChecked,           \* Controller._off_checked
  spBeforeOff,          \* Controller._sp_before_off
  sinceStop,            \* age of CapacityController._stopped_at; MinOff if None
  sinceLower,           \* age of _last_lower; Settle if None
  ceiling,              \* R32, the frequency ceiling
  reading,              \* the margin of this cycle, as in Readings
  blind,                \* whether the dew point is unknown in this cycle
  pc,                   \* where the cycle is: see Label
  arg,                  \* the value the next write is for
  ret,                  \* where the cycle goes on after a write of P04
  offFor,               \* how long P04 has been Off in the unit, up to MinOff
  stopper,              \* what ordered the last Off: the capacity loop ("loop", or
                        \* "armed" once ClearStale may undo it), its refusal or
                        \* fallback ("guard"), or nobody we know ("none")
  hidden,               \* the trim under way was decided on a cache without the Off
  enabled               \* control.capacity.enabled

p04 == <<dev, cache, sample>>
observed == <<offFor, stopper, hidden>>
loop == <<mode, offChecked, spBeforeOff, sinceStop, sinceLower>>
inputs == <<reading, blind>>
vars == <<p04, seen, sinceRead, loop, inputs, ceiling, pc, arg, ret, observed, enabled>>

P04 == INSTANCE RegisterCache

Label == {"wait", "clear", "trim", "trimmed", "heating", "capacity", "stop", "resume",
          "ceiling", "write"}

TypeOK ==
  /\ dev \in Value
  /\ cache \in Value \cup {Unread}
  /\ sample \in Value \cup {Unread}
  /\ seen \in BOOLEAN
  /\ sinceRead \in 0..PollGap
  /\ mode \in Mode
  /\ offChecked \in BOOLEAN
  /\ spBeforeOff \in (Value \ {Off}) \cup {None}   \* the sentinel is never kept
  /\ sinceStop \in 0..MinOff
  /\ sinceLower \in 0..Settle
  /\ ceiling \in 0..Top
  /\ reading \in Readings
  /\ blind \in Blind
  /\ pc \in Label
  /\ arg \in Value \cup (0..Top)
  /\ ret \in Label
  /\ offFor \in 0..MinOff
  /\ stopper \in {"loop", "armed", "guard", "none"}
  /\ hidden \in BOOLEAN
  /\ enabled \in Enabled

Init ==
  /\ P04!Init
  /\ seen = FALSE
  /\ sinceRead = PollGap
  /\ mode \in Mode
  /\ offChecked = FALSE
  /\ spBeforeOff = None
  /\ sinceStop = MinOff
  /\ sinceLower = Settle
  /\ ceiling \in 0..Top
  /\ reading \in Readings
  /\ blind \in Blind
  /\ pc = "wait"
  /\ arg = 0
  /\ ret = "wait"
  /\ offFor = 0
  /\ stopper = "none"
  /\ hidden = FALSE
  /\ enabled \in Enabled

----------------------------------------------------------------------------
(* Helpers *)

Older(age, limit) == IF age < limit THEN age + 1 ELSE age

Goto(label) == pc' = label /\ arg' = 0 /\ ret' = "wait"

\* cooling_is_off() and cooling_setpoint(): what the cache says.
IsOff == cache = Off
KeptRaw == cache   \* mutant: the sentinel is kept as if it were a setpoint
Kept == IF IsOff THEN spBeforeOff ELSE cache

\* set_cooling: a no-op is dropped, anything else goes to the bus; the cycle
\* goes on at label afterwards.
Write(v, label) ==
  IF cache = v
    THEN Goto(label)
    ELSE pc' = "write" /\ arg' = v /\ ret' = label

\* For the properties: how long ago P04 came to be Off.
Watch ==
  /\ offFor' = IF dev' = Off /\ dev # Off THEN 0 ELSE offFor
  /\ UNCHANGED <<stopper, hidden>>

OrderedBy(who) == stopper' = who /\ UNCHANGED <<offFor, hidden>>
ByTheLoop == IF offChecked THEN "loop" ELSE "armed"

----------------------------------------------------------------------------
(* The control cycle *)

\* A second has passed, sensors and dew point are read.  With stale I/O the
\* cycle is skipped (failsafe).
CycleStart ==
  /\ pc = "wait"
  /\ sinceStop' = Older(sinceStop, MinOff)
  /\ sinceLower' = Older(sinceLower, Settle)
  /\ sinceRead' = Older(sinceRead, PollGap)
  /\ offFor' = IF dev = Off THEN Older(offFor, MinOff) ELSE offFor
  /\ reading' \in Readings /\ blind' \in Blind
  /\ Goto("clear") \/ (Faulty /\ Goto("wait"))
  /\ UNCHANGED <<p04, enabled, seen, mode, offChecked, spBeforeOff, ceiling, stopper,
                 hidden>>

\* _clear_stale_cooling_off.
ClearStale ==
  /\ pc = "clear"
  /\ offChecked' = (offChecked \/ seen)
  /\ IF ~offChecked /\ seen /\ mode = "cooling" /\ IsOff
       THEN Write(Default, "trim")
       ELSE Goto("trim")
  /\ UNCHANGED <<p04, enabled, seen, sinceRead, mode, spBeforeOff, sinceStop,
                 sinceLower, inputs, ceiling, observed>>

\* _trim_water_setpoint says nothing about a machine that is off, or whose setpoint
\* is unknown ...
MayTrimTheSentinel == mode = "cooling" /\ cache # Unread   \* mutant: not asking IsOff
MayTrim == mode = "cooling" /\ ~IsOff /\ cache # Unread

\* ... otherwise it may ask for any setpoint of the mode.  That for heating is known
\* once everything is, or since an hp/set command for it was acknowledged.
Trim ==
  /\ pc = "trim"
  /\ \/ Goto("capacity")
     \/ /\ MayTrim
        /\ pc' = "trimmed" /\ arg' \in Setpoint /\ UNCHANGED ret
     \/ /\ mode = "heating" /\ (seen \/ Hands)
        /\ pc' = "heating" /\ arg' \in Heating /\ UNCHANGED ret
  /\ hidden' = (pc' = "trimmed" /\ ~IsOff)
  /\ UNCHANGED <<p04, enabled, seen, sinceRead, loop, inputs, ceiling, offFor, stopper>>

\* ... and writes it after publishing its reason.  The register is P04 if the
\* target was for cooling, or if the mode is cooling by now.
TrimWrite ==
  /\ \/ pc = "trimmed" /\ Write(arg, "capacity")
     \/ pc = "heating" /\ IF mode = "cooling" THEN Write(arg, "capacity")
                                              ELSE Goto("capacity")
  /\ hidden' = FALSE
  /\ UNCHANGED <<p04, enabled, seen, sinceRead, loop, inputs, ceiling, offFor, stopper>>

----------------------------------------------------------------------------
(* _trim_capacity and CapacityController.step *)

Low(err) == err # None /\ err < -Deadband
Recovered(err) == err # None /\ err >= Deadband
Spare(err) == err # None /\ err > Deadband
Breach(err) == err # None /\ err + Target < 0

\* Nothing left to lower: the compressor idles, the ceiling does not bind or
\* cannot be read, or it is at its floor.
OnlyWithCeiling(idle, usable) ==   \* mutant: stopping needs a usable ceiling
  usable /\ (idle \/ (sinceLower = Settle /\ ceiling = 0))
NothingToLower(idle, usable) ==
  idle \/ ~usable \/ (sinceLower = Settle /\ ceiling = 0)

\* Cooling with an unknown dew point is refused, whatever is enabled.
RefuseBlind ==
  /\ IF IsOff THEN Goto("wait") /\ UNCHANGED observed
              ELSE Write(Off, "wait") /\ OrderedBy("guard")
  /\ UNCHANGED <<sinceStop, sinceLower>>

HoldStep == Goto("wait") /\ UNCHANGED <<sinceStop, sinceLower, observed>>

\* With the loop disabled a measured breach still stops the compressor.
Fallback(err) ==
  /\ IF mode = "cooling" /\ Breach(err) /\ ~IsOff
       THEN Write(Off, "wait") /\ OrderedBy("guard")
       ELSE Goto("wait") /\ UNCHANGED observed
  /\ UNCHANGED <<sinceStop, sinceLower>>

\* Stopped: only a recovered margin, and not too soon, leads out.
ResumeRestamping(err) ==   \* mutant: every look at a stopped machine stamps it
  /\ IF sinceStop < MinOff \/ ~Recovered(err)
       THEN sinceStop' = 0 /\ Goto("wait")
       ELSE sinceStop' = MinOff /\ Goto("resume")
  /\ UNCHANGED <<sinceLower, observed>>
ResumeStep(err) ==
  /\ IF sinceStop < MinOff \/ ~Recovered(err)
       THEN UNCHANGED sinceStop /\ Goto("wait")
       ELSE sinceStop' = MinOff /\ Goto("resume")
  /\ UNCHANGED <<sinceLower, observed>>

StopStep ==
  /\ sinceStop' = 0
  /\ UNCHANGED sinceLower
  /\ OrderedBy(ByTheLoop)
  /\ Goto("stop")

LowerStep ==
  /\ IF sinceLower < Settle
       THEN UNCHANGED sinceLower /\ Goto("wait")
       ELSE /\ sinceLower' = 0
            /\ pc' = "ceiling" /\ arg' \in 0..(ceiling - 1) /\ UNCHANGED ret
  /\ UNCHANGED <<sinceStop, observed>>

\* Spare margin may be spent; the raise clock and the falling-margin veto,
\* which may only withhold it, are left open.
RaiseStep(usable) ==
  /\ \/ Goto("wait")
     \/ usable /\ pc' = "ceiling" /\ arg' \in (ceiling + 1)..Top /\ UNCHANGED ret
  /\ UNCHANGED <<sinceStop, sinceLower, observed>>

RunningStep(err, idle, usable) ==
  IF Low(err)
    THEN IF NothingToLower(idle, usable) THEN StopStep
         ELSE IF usable THEN LowerStep ELSE HoldStep
    ELSE IF Spare(err) THEN RaiseStep(usable) ELSE HoldStep

ActUnread == TRUE   \* mutant: writes before the first read
MayAct == seen

Capacity ==
  /\ pc = "capacity"
  /\ \E idle, usable \in BOOLEAN :
       IF ~MayAct THEN HoldStep
       ELSE IF mode = "cooling" /\ blind THEN RefuseBlind
       ELSE IF ~enabled THEN Fallback(reading)
       ELSE IF mode # "cooling" THEN HoldStep
       ELSE IF IsOff THEN ResumeStep(reading)
       ELSE RunningStep(reading, idle, usable)
  /\ UNCHANGED <<p04, enabled, seen, sinceRead, mode, offChecked, spBeforeOff, inputs,
                 ceiling>>

\* d.stops: keep the setpoint in force, then write Off.
Stop ==
  /\ pc = "stop"
  /\ spBeforeOff' = Kept
  /\ Write(Off, "wait")
  /\ UNCHANGED <<p04, enabled, seen, sinceRead, mode, offChecked, sinceStop, sinceLower,
                 inputs, ceiling, observed>>

\* d.resumes: the setpoint kept, or a lower one that clears the restart dead zone,
\* and the lowest allowed if that is too low (clamp_setpoint).
Resume ==
  /\ pc = "resume"
  /\ \E v \in Value \ {Off} :
       /\ \/ v <= (IF spBeforeOff = None THEN Default ELSE spBeforeOff)
          \/ \A w \in Setpoint : v <= w
       /\ Write(v, "wait")
  /\ UNCHANGED <<p04, enabled, seen, sinceRead, loop, inputs, ceiling, observed>>

\* The ceiling is another register, and its cache is not at issue here.
CeilingWrite ==
  /\ pc = "ceiling"
  /\ ceiling' = arg \/ (Faulty /\ UNCHANGED ceiling)
  /\ Goto("wait")
  /\ UNCHANGED <<p04, enabled, seen, sinceRead, loop, inputs, observed>>

----------------------------------------------------------------------------
(* A write of P04 ends: acknowledged, stored but not acknowledged, or not at *)
(* all (budget, no connection, error answer).                                *)

WriteEnds ==
  /\ pc = "write"
  /\ UNCHANGED <<enabled, seen, sinceRead, loop, inputs, ceiling>>

WriteOk == WriteEnds /\ Goto(ret) /\ P04!AckedWrite(arg) /\ Watch

\* An exception instead of an answer also ends the control cycle.
Unanswered == Faulty /\ WriteEnds /\ (Goto(ret) \/ Goto("wait"))
WriteLost == Unanswered /\ P04!UnseenChange(arg) /\ Watch
WriteFailed == Unanswered /\ UNCHANGED <<p04, observed>>

----------------------------------------------------------------------------
(* Meanwhile *)

cycle == <<enabled, loop, inputs, ceiling, pc, arg, ret>>

\* The read of the whole space reaches P04's chunk ...
PollSample ==
  /\ sinceRead = PollGap \/ ~seen
  /\ P04!Sample
  /\ UNCHANGED <<seen, sinceRead, cycle, observed>>

\* ... and ends, two awaits or more later.
PollInstall ==
  /\ P04!Install
  /\ seen' = TRUE
  /\ sinceRead' = 0
  /\ UNCHANGED <<cycle, observed>>

PollDiscard ==
  /\ Faulty
  /\ P04!Discard
  /\ UNCHANGED <<seen, sinceRead, cycle, observed>>

\* _apply_mode, from MQTT or auto_mode; the same mode again counts.
ModeCommand(m) ==
  /\ Commands
  /\ mode' = m
  /\ offChecked' = FALSE
  /\ spBeforeOff' = None
  /\ stopper' = IF stopper = "loop" THEN "armed" ELSE stopper
  /\ UNCHANGED <<p04, enabled, seen, sinceRead, sinceStop, sinceLower, inputs, ceiling,
                 pc, arg, ret, offFor, hidden>>

\* The process dies, a write on its way may still land, and a new one starts.
Crash ==
  /\ Crashes
  /\ dev' \in {dev} \cup {v \in Value : pc = "write" /\ v = arg}
  /\ offFor' = IF dev' = Off /\ dev # Off THEN 0 ELSE offFor
  /\ stopper' = "none" /\ hidden' = FALSE
  /\ cache' = Unread /\ sample' = Unread /\ seen' = FALSE /\ sinceRead' = PollGap
  /\ mode' \in Mode
  /\ offChecked' = FALSE /\ spBeforeOff' = None
  /\ sinceStop' = MinOff /\ sinceLower' = Settle
  /\ Goto("wait")
  /\ UNCHANGED <<enabled, inputs, ceiling>>

\* Somebody sets P04 at the panel, or with hp/set/setpoint_cooling.
SetByHand(v) ==
  /\ Hands
  /\ P04!UnseenChange(v) \/ P04!AckedWrite(v)
  /\ offFor' = IF dev' = Off /\ dev # Off THEN 0 ELSE offFor
  /\ stopper' = "none"
  /\ UNCHANGED <<seen, sinceRead, cycle, hidden>>

Disturbance ==
  \/ \E m \in Mode : ModeCommand(m)
  \/ Crash
  \/ \E v \in Value : SetByHand(v)

Cycle == CycleStart \/ ClearStale \/ Trim \/ TrimWrite \/ Capacity \/ Stop \/ Resume
         \/ CeilingWrite

Next ==
  \/ Cycle
  \/ WriteOk \/ WriteLost \/ WriteFailed
  \/ PollSample \/ PollInstall \/ PollDiscard
  \/ Disturbance

\* The loop goes on and every transaction ends; of writes, reads, cycles and
\* ceilings tried for ever, some succeed.  The rest is up to the house.
Fairness ==
  /\ WF_vars(Cycle)
  /\ WF_vars(WriteOk \/ WriteLost \/ WriteFailed)
  /\ \A v \in Value : SF_vars(WriteOk /\ arg = v)
  /\ WF_vars(PollSample) /\ SF_vars(PollInstall)
  /\ SF_vars(CycleStart /\ pc' = "clear")
  /\ SF_vars(CeilingWrite /\ ceiling' = arg)

Spec == Init /\ [][Next]_vars
FairSpec == Spec /\ Fairness

----------------------------------------------------------------------------
(* Properties *)

Undisturbed == <>[][~Disturbance]_vars

\* What stops the compressor: an unknown dew point; with the capacity loop, a
\* margin that is too low; without it, only water below the limit itself.
MustStop == blind \/ IF enabled THEN Low(reading) ELSE Breach(reading)

\* An unknown dew point or water that is too cold, cycle after cycle, stops the
\* compressor, and again after anything that restarts it behind the loop's back -
\* a stale read, a lost answer, a failed write - with the capacity loop on or off.
ColdWaterIsStopped ==
  Undisturbed /\ <>[]MustStop => []<>(mode = "cooling" => dev = Off)

\* A stop is not for ever: with the margin back and the dew point known the
\* compressor runs again, whoever stopped it and whatever got lost - except with
\* the loop disabled, when nothing resumes.
StopIsNotForEver ==
  enabled /\ Undisturbed /\ <>[](~blind /\ Recovered(reading))
    => []<>(mode = "cooling" => dev # Off)

\* This process decides on a write that starts a compressor stopped too recently.
RestartsEarly ==
  pc # "write" /\ pc' = "write" /\ arg' # Off /\ dev = Off /\ offFor < MinOff

\* A stop of the capacity loop lasts for min_off_s (test_a_stopped_compressor_does_
\* not_restart_inside_the_anti_short_cycle): it is never resumed before, whatever
\* the mode, the dew point, lost answers and stale reads do in between, and no other
\* branch restarts it either - but for the trim while the cache does not show the
\* OFF, and, once a mode command has re-armed the clearing of a stale OFF or when the
\* process stopped before it had made that check, the clearing and a setpoint meant
\* for heating.
AntiShortCycle ==
  [][RestartsEarly => /\ stopper = "loop" => hidden
                      /\ stopper = "armed" => pc # "resume"]_vars

\* No part of the cycle writes P04 while its value is unknown to this process,
\* however often it is restarted ("three flash cycles for one decision") - but for
\* a setpoint meant for heating that a mode command turns into one for cooling: the
\* trim, unlike the rest, does not wait for the first read of all registers.
NeverWritesUnread ==
  [][pc # "write" /\ pc' = "write" => cache # Unread \/ pc = "heating"]_vars

(* What a test says, and the code does not keep *)

\* "Restarting sooner than that fights its own rhythm and wears the compressor" -
\* whichever branch of this process stopped it.
EveryStopLasts ==
  [][pc = "resume" /\ pc' = "write" /\ dev = Off /\ stopper # "none"
       => offFor >= MinOff]_vars
=============================================================================
