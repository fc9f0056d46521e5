----------------------- MODULE CompressorGuardProofs -----------------------
(***************************************************************************)
(* Proofs about CompressorGuard for every set of setpoints, modes and       *)
(* readings and all clocks: its variables keep their types, nothing but a    *)
(* setpoint for heating is written while P04 is unknown, and a stop of the   *)
(* capacity loop lasts.                                                      *)
(***************************************************************************)
EXTENDS CompressorGuard, TLAPS

\* What a label says about the value under way, and where a write returns to.
Args ==
  /\ pc = "write" => arg \in Value
  /\ pc = "trimmed" => arg \in Setpoint
  /\ pc = "heating" => arg \in Heating
  /\ pc = "ceiling" => arg \in 0..Top
  /\ ret \in {"wait", "trim", "capacity"}

\* P04 is known to whoever has decided to write it, but for heating.
Known ==
  /\ seen => cache # Unread
  /\ pc \in {"trimmed", "stop", "resume"} => cache # Unread

\* While P04 is Off by order of the loop, it has been so for as long as the
\* loop's own clock says, and the clock starts before the write that orders it.
Waits ==
  /\ stopper \in {"loop", "armed"} /\ dev = Off => offFor >= sinceStop
  /\ pc = "stop" => sinceStop = 0
  /\ pc = "write" /\ arg = Off /\ stopper \in {"loop", "armed"} => sinceStop = 0
  /\ pc = "resume" => sinceStop = MinOff

\* A stop that no mode command has come after finds the clearing of a stale OFF done
\* with and no setpoint for heating on its way; the trim, where it goes on, has not
\* seen the OFF.
Excuses ==
  /\ stopper = "loop" => offChecked /\ mode = "cooling" /\ pc # "heating"
  /\ pc = "trimmed" => hidden

IInv == TypeOK /\ Args /\ Known /\ Waits /\ Excuses

\* TypeOK in parts: the registers and the memory of the loop, where the cycle is,
\* and what is watched.
PartsOK ==
  /\ dev \in Value /\ cache \in Value \cup {Unread} /\ sample \in Value \cup {Unread}
  /\ seen \in BOOLEAN /\ sinceRead \in 0..PollGap /\ mode \in Mode
  /\ offChecked \in BOOLEAN /\ spBeforeOff \in (Value \ {Off}) \cup {None}
  /\ sinceStop \in 0..MinOff /\ sinceLower \in 0..Settle /\ ceiling \in 0..Top
  /\ reading \in Readings /\ blind \in Blind /\ enabled \in Enabled
PlaceOK ==
  /\ pc \in Label /\ arg \in Value \cup (0..Top) /\ ret \in Label
WatchOK ==
  /\ offFor \in 0..MinOff /\ stopper \in {"loop", "armed", "guard", "none"}
  /\ hidden \in BOOLEAN

LEMMA OlderType ==
  ASSUME NEW n \in Nat, NEW age \in 0..n
  PROVE  Older(age, n) \in 0..n
BY DEF Older

LEMMA OlderMonotone ==
  ASSUME NEW n \in Nat, NEW a \in 0..n, NEW b \in 0..n, a >= b
  PROVE  Older(a, n) >= Older(b, n)
BY DEF Older

\* The sentinel is no setpoint, and no value stands for an unknown.
LEMMA Values ==
  /\ Off \in Value /\ Off \notin Setpoint /\ Off \notin Heating
  /\ Default \in Value /\ Default # Off
  /\ Setpoint \subseteq Value /\ Heating \subseteq Value
  /\ Unread \notin Value /\ None \notin Value
BY GuardAssumption DEF Value

LEMMA Clocks ==
  /\ MinOff \in Nat /\ Settle \in Nat /\ PollGap \in Nat /\ Top \in Nat
  /\ 0 \in 0..MinOff /\ MinOff \in 0..MinOff
  /\ 0 \in 0..Settle /\ Settle \in 0..Settle
  /\ 0 \in 0..PollGap /\ PollGap \in 0..PollGap
BY GuardAssumption

LEMMA CycleStartInv ==
  ASSUME IInv, CycleStart
  PROVE  IInv'
<1> USE Values, Clocks DEF IInv, TypeOK, Args, Known, Waits, Excuses,
         CycleStart, Goto, observed, loop, inputs, p04, Label, Older
<1>1. TypeOK'
  OBVIOUS
<1>2. Args'
  OBVIOUS
<1>3. Known'
  OBVIOUS
<1>4. Waits'
  OBVIOUS
<1>5. Excuses'
  OBVIOUS
<1> QED
  BY <1>1, <1>2, <1>3, <1>4, <1>5

LEMMA ClearStaleInv ==
  ASSUME IInv, ClearStale
  PROVE  IInv'
<1> USE Values, Clocks DEF IInv, TypeOK, Args, Known, Waits, Excuses,
         ClearStale, Write, IsOff, Label, Goto, observed, loop, inputs, p04
<1>1. TypeOK'
  OBVIOUS
<1>2. Args'
  OBVIOUS
<1>3. Known'
  OBVIOUS
<1>4. Waits'
  OBVIOUS
<1>5. Excuses'
  OBVIOUS
<1> QED
  BY <1>1, <1>2, <1>3, <1>4, <1>5

LEMMA TrimInv ==
  ASSUME IInv, Trim
  PROVE  IInv'
<1> USE Values, Clocks DEF IInv, TypeOK, Args, Known, Waits, Excuses,
         Trim, MayTrim, IsOff, Label, Goto, observed, loop, inputs, p04
<1>1. TypeOK'
  OBVIOUS
<1>2. Args'
  OBVIOUS
<1>3. Known'
  OBVIOUS
<1>4. Waits'
  OBVIOUS
<1>5. Excuses'
  OBVIOUS
<1> QED
  BY <1>1, <1>2, <1>3, <1>4, <1>5

LEMMA TrimWriteInv ==
  ASSUME IInv, TrimWrite
  PROVE  IInv'
<1> USE Values, Clocks DEF IInv, TypeOK, Args, Known, Waits, Excuses,
         TrimWrite, Write, Label, Goto, observed, loop, inputs, p04
<1>1. TypeOK'
  <2>1. PartsOK'
    BY DEF PartsOK
  <2>2. PlaceOK'
    BY DEF PlaceOK
  <2>3. WatchOK'
    BY DEF WatchOK
  <2> QED
    BY <2>1, <2>2, <2>3 DEF PartsOK, PlaceOK, WatchOK
<1>2. Args'
  OBVIOUS
<1>3. Known'
  OBVIOUS
<1>4. Waits'
  OBVIOUS
<1>5. Excuses'
  OBVIOUS
<1> QED
  BY <1>1, <1>2, <1>3, <1>4, <1>5

----------------------------------------------------------------------------
(* The decisions of _trim_capacity *)

\* What every decision leaves alone.
Framed ==
  /\ pc = "capacity" /\ seen
  /\ UNCHANGED <<p04, enabled, seen, sinceRead, mode, offChecked, spBeforeOff, inputs,
                 ceiling>>

LEMMA RefuseInv ==
  ASSUME IInv, Framed, RefuseBlind
  PROVE  IInv'
<1> USE Values, Clocks DEF IInv, TypeOK, Args, Known, Waits, Excuses,
         RefuseBlind, OrderedBy, Write, IsOff, Framed, Label, Goto, observed,
         loop, inputs, p04
<1>1. TypeOK'
  OBVIOUS
<1>2. Args'
  OBVIOUS
<1>3. Known'
  OBVIOUS
<1>4. Waits'
  OBVIOUS
<1>5. Excuses'
  OBVIOUS
<1> QED
  BY <1>1, <1>2, <1>3, <1>4, <1>5

LEMMA FallbackInv ==
  ASSUME IInv, Framed, NEW err \in Readings, Fallback(err)
  PROVE  IInv'
<1> USE Values, Clocks DEF IInv, TypeOK, Args, Known, Waits, Excuses,
         Fallback, OrderedBy, Write, IsOff, Framed, Label, Goto, observed,
         loop, inputs, p04
<1>1. TypeOK'
  OBVIOUS
<1>2. Args'
  OBVIOUS
<1>3. Known'
  OBVIOUS
<1>4. Waits'
  OBVIOUS
<1>5. Excuses'
  OBVIOUS
<1> QED
  BY <1>1, <1>2, <1>3, <1>4, <1>5

LEMMA ResumingInv ==
  ASSUME IInv, Framed, NEW err \in Readings, ResumeStep(err)
  PROVE  IInv'
<1> USE Values, Clocks DEF IInv, TypeOK, Args, Known, Waits, Excuses,
         ResumeStep, Framed, Label, Goto, observed, loop, inputs, p04
<1>1. TypeOK'
  OBVIOUS
<1>2. Args'
  OBVIOUS
<1>3. Known'
  OBVIOUS
<1>4. Waits'
  OBVIOUS
<1>5. Excuses'
  OBVIOUS
<1> QED
  BY <1>1, <1>2, <1>3, <1>4, <1>5

LEMMA StopStepInv ==
  ASSUME IInv, Framed, StopStep, mode = "cooling"
  PROVE  IInv'
<1> USE Values, Clocks DEF IInv, TypeOK, Args, Known, Waits, Excuses,
         StopStep, OrderedBy, ByTheLoop, Framed, Label, Goto, observed, loop, inputs, p04
<1>1. TypeOK'
  OBVIOUS
<1>2. Args'
  OBVIOUS
<1>3. Known'
  OBVIOUS
<1>4. Waits'
  OBVIOUS
<1>5. Excuses'
  OBVIOUS
<1> QED
  BY <1>1, <1>2, <1>3, <1>4, <1>5

LEMMA LowerStepInv ==
  ASSUME IInv, Framed, LowerStep
  PROVE  IInv'
<1> USE Values, Clocks DEF IInv, TypeOK, Args, Known, Waits, Excuses,
         LowerStep, Framed, Label, Goto, observed, loop, inputs, p04
<1>1. TypeOK'
  OBVIOUS
<1>2. Args'
  OBVIOUS
<1>3. Known'
  OBVIOUS
<1>4. Waits'
  OBVIOUS
<1>5. Excuses'
  OBVIOUS
<1> QED
  BY <1>1, <1>2, <1>3, <1>4, <1>5

LEMMA RaiseStepInv ==
  ASSUME IInv, Framed, NEW usable, RaiseStep(usable)
  PROVE  IInv'
<1> USE Values, Clocks DEF IInv, TypeOK, Args, Known, Waits, Excuses,
         RaiseStep, Framed, Label, Goto, observed, loop, inputs, p04
<1>1. TypeOK'
  OBVIOUS
<1>2. Args'
  OBVIOUS
<1>3. Known'
  OBVIOUS
<1>4. Waits'
  OBVIOUS
<1>5. Excuses'
  OBVIOUS
<1> QED
  BY <1>1, <1>2, <1>3, <1>4, <1>5

\* Holding does nothing but end the cycle, also before the first read.
LEMMA HoldInv ==
  ASSUME IInv, pc = "capacity", HoldStep,
         UNCHANGED <<p04, enabled, seen, sinceRead, mode, offChecked, spBeforeOff, inputs,
                     ceiling>>
  PROVE  IInv'
BY Clocks DEF IInv, TypeOK, Args, Known, Waits, Excuses, HoldStep, Goto, observed,
              inputs, p04, Label

LEMMA CapacityInv ==
  ASSUME IInv, Capacity
  PROVE  IInv'
<1>1. PICK idle \in BOOLEAN, usable \in BOOLEAN :
        IF ~MayAct THEN HoldStep
        ELSE IF mode = "cooling" /\ blind THEN RefuseBlind
        ELSE IF ~enabled THEN Fallback(reading)
        ELSE IF mode # "cooling" THEN HoldStep
        ELSE IF IsOff THEN ResumeStep(reading)
        ELSE RunningStep(reading, idle, usable)
  BY DEF Capacity
<1>2. /\ pc = "capacity"
      /\ UNCHANGED <<p04, enabled, seen, sinceRead, mode, offChecked, spBeforeOff, inputs,
                     ceiling>>
      /\ reading \in Readings
  BY DEF Capacity, IInv, TypeOK
<1>3. CASE HoldStep
  BY <1>2, <1>3, HoldInv
<1>4. CASE MayAct /\ ~HoldStep
  <2>1. Framed
    BY <1>2, <1>4 DEF MayAct, Framed
  <2>2. \/ RefuseBlind \/ Fallback(reading) \/ ResumeStep(reading)
        \/ StopStep /\ mode = "cooling"
        \/ LowerStep \/ RaiseStep(usable)
    BY <1>1, <1>4 DEF RunningStep
  <2> QED
    BY <1>2, <2>1, <2>2, RefuseInv, FallbackInv, ResumingInv, StopStepInv, LowerStepInv,
       RaiseStepInv
<1> QED
  BY <1>1, <1>3, <1>4

----------------------------------------------------------------------------
(* Writes, the poll, and what disturbs them *)

LEMMA StopInv ==
  ASSUME IInv, Stop
  PROVE  IInv'
<1> USE Values, Clocks DEF IInv, TypeOK, Args, Known, Waits, Excuses,
         Stop, Write, Kept, IsOff, Label, Goto, observed, loop, inputs, p04
<1>1. TypeOK'
  OBVIOUS
<1>2. Args'
  OBVIOUS
<1>3. Known'
  OBVIOUS
<1>4. Waits'
  OBVIOUS
<1>5. Excuses'
  OBVIOUS
<1> QED
  BY <1>1, <1>2, <1>3, <1>4, <1>5

LEMMA ResumeInv ==
  ASSUME IInv, Resume
  PROVE  IInv'
<1> USE Values, Clocks DEF IInv, TypeOK, Args, Known, Waits, Excuses,
         Resume, Write, Label, Goto, observed, loop, inputs, p04
<1>1. TypeOK'
  OBVIOUS
<1>2. Args'
  OBVIOUS
<1>3. Known'
  OBVIOUS
<1>4. Waits'
  OBVIOUS
<1>5. Excuses'
  OBVIOUS
<1> QED
  BY <1>1, <1>2, <1>3, <1>4, <1>5

LEMMA CeilingWriteInv ==
  ASSUME IInv, CeilingWrite
  PROVE  IInv'
<1> USE Values, Clocks DEF IInv, TypeOK, Args, Known, Waits, Excuses,
         CeilingWrite, Label, Goto, observed, loop, inputs, p04
<1>1. TypeOK'
  OBVIOUS
<1>2. Args'
  OBVIOUS
<1>3. Known'
  OBVIOUS
<1>4. Waits'
  OBVIOUS
<1>5. Excuses'
  OBVIOUS
<1> QED
  BY <1>1, <1>2, <1>3, <1>4, <1>5

LEMMA WriteOkInv ==
  ASSUME IInv, WriteOk
  PROVE  IInv'
<1> USE Values, Clocks DEF IInv, TypeOK, Args, Known, Waits, Excuses,
         WriteOk, P04!AckedWrite, Unanswered, WriteEnds, Watch, Label, Goto,
         observed, loop, inputs, p04
<1>1. TypeOK'
  OBVIOUS
<1>2. Args'
  OBVIOUS
<1>3. Known'
  OBVIOUS
<1>4. Waits'
  OBVIOUS
<1>5. Excuses'
  OBVIOUS
<1> QED
  BY <1>1, <1>2, <1>3, <1>4, <1>5

LEMMA WriteLostInv ==
  ASSUME IInv, WriteLost
  PROVE  IInv'
<1> USE Values, Clocks DEF IInv, TypeOK, Args, Known, Waits, Excuses,
         WriteLost, P04!UnseenChange, Unanswered, WriteEnds, Watch, Label,
         Goto, observed, loop, inputs, p04
<1>1. TypeOK'
  OBVIOUS
<1>2. Args'
  OBVIOUS
<1>3. Known'
  OBVIOUS
<1>4. Waits'
  OBVIOUS
<1>5. Excuses'
  OBVIOUS
<1> QED
  BY <1>1, <1>2, <1>3, <1>4, <1>5

LEMMA WriteFailedInv ==
  ASSUME IInv, WriteFailed
  PROVE  IInv'
<1> USE Values, Clocks DEF IInv, TypeOK, Args, Known, Waits, Excuses,
         WriteFailed, Unanswered, WriteEnds, Watch, Label, Goto, observed,
         loop, inputs, p04
<1>1. TypeOK'
  OBVIOUS
<1>2. Args'
  OBVIOUS
<1>3. Known'
  OBVIOUS
<1>4. Waits'
  OBVIOUS
<1>5. Excuses'
  OBVIOUS
<1> QED
  BY <1>1, <1>2, <1>3, <1>4, <1>5

LEMMA PollSampleInv ==
  ASSUME IInv, PollSample
  PROVE  IInv'
<1> USE Values, Clocks DEF IInv, TypeOK, Args, Known, Waits, Excuses,
         PollSample, P04!Sample, cycle, Label, Goto, observed, loop, inputs,
         p04
<1>1. TypeOK'
  OBVIOUS
<1>2. Args'
  OBVIOUS
<1>3. Known'
  OBVIOUS
<1>4. Waits'
  OBVIOUS
<1>5. Excuses'
  OBVIOUS
<1> QED
  BY <1>1, <1>2, <1>3, <1>4, <1>5

LEMMA PollInstallInv ==
  ASSUME IInv, PollInstall
  PROVE  IInv'
<1> USE Values, Clocks DEF IInv, TypeOK, Args, Known, Waits, Excuses,
         PollInstall, P04!Install, cycle, Label, Goto, observed, loop, inputs,
         p04
<1>1. TypeOK'
  OBVIOUS
<1>2. Args'
  OBVIOUS
<1>3. Known'
  OBVIOUS
<1>4. Waits'
  OBVIOUS
<1>5. Excuses'
  OBVIOUS
<1> QED
  BY <1>1, <1>2, <1>3, <1>4, <1>5

LEMMA PollDiscardInv ==
  ASSUME IInv, PollDiscard
  PROVE  IInv'
<1> USE Values, Clocks DEF IInv, TypeOK, Args, Known, Waits, Excuses,
         PollDiscard, P04!Discard, cycle, Label, Goto, observed, loop, inputs,
         p04
<1>1. TypeOK'
  OBVIOUS
<1>2. Args'
  OBVIOUS
<1>3. Known'
  OBVIOUS
<1>4. Waits'
  OBVIOUS
<1>5. Excuses'
  OBVIOUS
<1> QED
  BY <1>1, <1>2, <1>3, <1>4, <1>5

LEMMA ModeCommandInv ==
  ASSUME IInv, NEW m \in Mode, ModeCommand(m)
  PROVE  IInv'
<1> USE Values, Clocks DEF IInv, TypeOK, Args, Known, Waits, Excuses,
         ModeCommand, cycle, Label, Goto, observed, loop, inputs, p04
<1>1. TypeOK'
  <2>1. PartsOK'
    BY DEF PartsOK
  <2>2. PlaceOK'
    BY DEF PlaceOK
  <2>3. WatchOK'
    BY DEF WatchOK
  <2> QED
    BY <2>1, <2>2, <2>3 DEF PartsOK, PlaceOK, WatchOK
<1>2. Args'
  OBVIOUS
<1>3. Known'
  OBVIOUS
<1>4. Waits'
  OBVIOUS
<1>5. Excuses'
  OBVIOUS
<1> QED
  BY <1>1, <1>2, <1>3, <1>4, <1>5

LEMMA CrashInv ==
  ASSUME IInv, Crash
  PROVE  IInv'
<1> USE Values, Clocks DEF IInv, TypeOK, Args, Known, Waits, Excuses,
         Crash, cycle, Label, Goto, observed, loop, inputs, p04
<1>1. TypeOK'
  <2>1. PartsOK'
    BY DEF PartsOK
  <2>2. PlaceOK'
    BY DEF PlaceOK
  <2>3. WatchOK'
    BY DEF WatchOK
  <2> QED
    BY <2>1, <2>2, <2>3 DEF PartsOK, PlaceOK, WatchOK
<1>2. Args'
  OBVIOUS
<1>3. Known'
  OBVIOUS
<1>4. Waits'
  OBVIOUS
<1>5. Excuses'
  OBVIOUS
<1> QED
  BY <1>1, <1>2, <1>3, <1>4, <1>5

LEMMA SetByHandInv ==
  ASSUME IInv, NEW v \in Value, SetByHand(v)
  PROVE  IInv'
<1> USE Values, Clocks DEF IInv, TypeOK, Args, Known, Waits, Excuses,
         SetByHand, P04!AckedWrite, P04!UnseenChange, cycle, Label, Goto,
         observed, loop, inputs, p04
<1>1. TypeOK'
  OBVIOUS
<1>2. Args'
  OBVIOUS
<1>3. Known'
  OBVIOUS
<1>4. Waits'
  OBVIOUS
<1>5. Excuses'
  OBVIOUS
<1> QED
  BY <1>1, <1>2, <1>3, <1>4, <1>5

LEMMA InitInv == Init => IInv
<1> SUFFICES ASSUME Init PROVE IInv
  OBVIOUS
<1>1. dev \in Value /\ cache = Unread /\ sample = Unread
  BY DEF Init, P04!Init
<1>2. /\ sinceRead \in 0..PollGap /\ sinceStop \in 0..MinOff /\ sinceLower \in 0..Settle
      /\ offFor \in 0..MinOff /\ ceiling \in 0..Top /\ arg \in 0..Top
  BY Clocks DEF Init
<1>3. TypeOK
  BY <1>1, <1>2 DEF Init, TypeOK, Label
<1>4. Args /\ Known /\ Waits /\ Excuses
  BY DEF Init, Args, Known, Waits, Excuses
<1> QED
  BY <1>3, <1>4 DEF IInv

LEMMA NextInv == IInv /\ [Next]_vars => IInv'
<1> SUFFICES ASSUME IInv, [Next]_vars
             PROVE  IInv'
  OBVIOUS
<1>1. CASE Cycle
  BY <1>1, CycleStartInv, ClearStaleInv, TrimInv, TrimWriteInv, CapacityInv, StopInv,
     ResumeInv, CeilingWriteInv DEF Cycle
<1>2. CASE WriteOk \/ WriteLost \/ WriteFailed
  BY <1>2, WriteOkInv, WriteLostInv, WriteFailedInv
<1>3. CASE PollSample \/ PollInstall \/ PollDiscard
  BY <1>3, PollSampleInv, PollInstallInv, PollDiscardInv
<1>4. CASE Disturbance
  BY <1>4, ModeCommandInv, CrashInv, SetByHandInv DEF Disturbance
<1>5. CASE UNCHANGED vars
  BY <1>5 DEF vars, p04, loop, inputs, observed, IInv, TypeOK, Args, Known, Waits, Excuses
<1> QED
  BY <1>1, <1>2, <1>3, <1>4, <1>5 DEF Next

THEOREM Invariant == Spec => []IInv
BY InitInv, NextInv, PTL DEF Spec

\* Every variable keeps its type; above all the sentinel OFF is never kept as the
\* setpoint to go back to (Controller._sp_before_off).
THEOREM Typed == Spec => []TypeOK
<1>1. IInv => TypeOK
  BY DEF IInv
<1> QED
  BY Invariant, <1>1, PTL

----------------------------------------------------------------------------
(* The action properties *)

\* The steps that send the cycle to a write of P04, and what they know.
LEMMA WhoWrites ==
  ASSUME IInv, Next, pc # "write", pc' = "write"
  PROVE  \/ pc = "clear" /\ ~offChecked /\ cache # Unread
         \/ pc \in {"capacity", "stop"} /\ arg' = Off /\ cache # Unread
         \/ pc \in {"trimmed", "resume"} /\ cache # Unread
         \/ pc = "heating"
<1>1. CASE Cycle
  <2>1. CASE ClearStale
    BY <2>1, Values DEF ClearStale, Goto, Write, IInv, Known
  <2>2. CASE TrimWrite
    BY <2>2 DEF TrimWrite, IInv, Known
  <2>3. CASE Capacity
    BY <2>3 DEF Capacity, MayAct, HoldStep, RefuseBlind, Fallback, ResumeStep,
                RunningStep, StopStep, LowerStep, RaiseStep, Write, Goto, IInv, Known
  <2>4. CASE Stop
    BY <2>4 DEF Stop, Write, Goto, IInv, Known
  <2>5. CASE Resume
    BY <2>5 DEF Resume, IInv, Known
  <2>6. CASE CycleStart \/ Trim \/ CeilingWrite
    BY <2>6 DEF CycleStart, Trim, CeilingWrite, Goto
  <2> QED
    BY <1>1, <2>1, <2>2, <2>3, <2>4, <2>5, <2>6 DEF Cycle
<1>2. CASE WriteOk \/ WriteLost \/ WriteFailed
  BY <1>2 DEF WriteOk, WriteLost, WriteFailed, Unanswered, WriteEnds
<1>3. CASE PollSample \/ PollInstall \/ PollDiscard
  BY <1>3 DEF PollSample, PollInstall, PollDiscard, cycle
<1>4. CASE Disturbance
  BY <1>4 DEF Disturbance, ModeCommand, Crash, SetByHand, Goto, cycle
<1> QED
  BY <1>1, <1>2, <1>3, <1>4 DEF Next

\* No write of P04 is decided while its value is unknown, whatever crashes, hands
\* and failed reads do, except of a setpoint that was meant for heating.
THEOREM NoUnreadWrite == Spec => NeverWritesUnread
<1> DEFINE KnownThen == pc # "write" /\ pc' = "write" => cache # Unread \/ pc = "heating"
<1>1. IInv /\ [Next]_vars => [KnownThen]_vars
  BY WhoWrites
<1> HIDE DEF KnownThen
<1>2. Spec => [][KnownThen]_vars
  BY Invariant, <1>1, PTL DEF Spec
<1> QED
  BY <1>2 DEF KnownThen, NeverWritesUnread

\* A stop ordered by the capacity loop lasts for min_off_s: not even the clearing of
\* a stale OFF, or a resume, ends it; only a trim that does not see it may.
THEOREM StopLasts == Spec => AntiShortCycle
<1> DEFINE Excused == RestartsEarly => /\ stopper = "loop" => hidden
                                       /\ stopper = "armed" => pc # "resume"
<1>1. ASSUME IInv, Next, RestartsEarly
      PROVE  (stopper = "loop" => hidden) /\ (stopper = "armed" => pc # "resume")
  <2>1. pc = "resume" => stopper \notin {"loop", "armed"}
    BY <1>1, Clocks DEF RestartsEarly, IInv, TypeOK, Waits
  <2>2. stopper = "loop" => pc \in {"trimmed", "resume"}
    BY <1>1, WhoWrites DEF RestartsEarly, IInv, Excuses
  <2> QED
    BY <1>1, <2>1, <2>2 DEF IInv, Excuses
<1>2. IInv /\ [Next]_vars => [Excused]_vars
  BY <1>1
<1> HIDE DEF Excused
<1>3. Spec => [][Excused]_vars
  BY Invariant, <1>2, PTL DEF Spec
<1> QED
  BY <1>3 DEF Excused, AntiShortCycle
=============================================================================
