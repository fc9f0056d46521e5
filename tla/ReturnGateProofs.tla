-------------------------- MODULE ReturnGateProofs --------------------------
(***************************************************************************)
(* Proofs about ReturnGate, for every set of circuits and all clocks: its    *)
(* variables keep their types, and the return loop only runs on moving      *)
(* water unless an output was shut behind the gate's back.                  *)
(***************************************************************************)
EXTENDS ReturnGate, TLAPS

LEMMA OlderType ==
  ASSUME NEW n \in Nat, NEW age \in 0..n
  PROVE  Older(age, n) \in 0..n /\ Older(age, n) >= age
BY DEF Older

LEMMA AgedType ==
  ASSUME NEW g \in Gate
  PROVE  /\ GateAged(g) \in Gate
         /\ GateAged(g).open = (IF g.open = None THEN None ELSE Older(g.open, Settle))
<1> DEFINE o == IF g.open = None THEN None ELSE Older(g.open, Settle)
           t == IF g.trust = None THEN None ELSE Older(g.trust, FlushInterval)
<1>1. o \in 0..Settle \cup {None}
  <2>1. CASE g.open = None
    BY <2>1
  <2>2. CASE g.open # None
    BY <2>2, OlderType, GateAssumption DEF Gate
  <2> QED BY <2>1, <2>2
<1>2. t \in 0..FlushInterval \cup {None}
  <2>1. CASE g.trust = None
    BY <2>1
  <2>2. CASE g.trust # None
    BY <2>2, OlderType, GateAssumption DEF Gate
  <2> QED BY <2>1, <2>2
<1>3. GateAged(g) = [g EXCEPT !.open = o, !.trust = t]
  BY DEF GateAged
<1> QED
  BY <1>1, <1>2, <1>3 DEF Gate

LEMMA LookType ==
  ASSUME NEW g \in Gate
  PROVE  Look(g) \in Gate /\ Look(g).open = g.open
<1>1. 0 \in 0..FlushInterval
  BY GateAssumption
<1>2. (g.flushing \/ Overdue(g)) \in BOOLEAN
  BY DEF Gate, Overdue
<1> QED
  BY <1>1, <1>2 DEF Look, Gate

LEMMA RecordType ==
  ASSUME NEW g \in Gate, NEW pct \in GatePosition
  PROVE  /\ GateRecord(g, pct) \in Gate
         /\ GateRecord(g, pct).open = (IF pct = "shut" THEN None
                                   ELSE IF g.open = None THEN 0 ELSE g.open)
BY GateAssumption DEF GateRecord, Gate

----------------------------------------------------------------------------
(* What the parts of a cycle do to one circuit *)

Sources == [Circuit -> {"return", "air", "fault"}]

\* The return loop touches everything but the clock of the opening.
LEMMA ControlledType ==
  ASSUME GateTypeOK, NEW c \in Circuit, NEW input \in Inputs
  PROVE  /\ Controlled(c, input) \in Gate
         /\ Controlled(c, input).open = GateAged(gate[c]).open
<1> DEFINE g == GateAged(gate[c])
<1>1. g \in Gate
  BY AgedType DEF GateTypeOK
<1>2. Look(g) \in Gate /\ Look(g).open = g.open
  BY <1>1, LookType
<1>3. input.pid[c] \in GatePosition
  BY DEF Inputs
<1>4. /\ [Look(g) EXCEPT !.held = input.pid[c]] \in Gate
      /\ [Look(g) EXCEPT !.held = input.pid[c]].open = g.open
  <2> HIDE DEF g
  <2> QED BY <1>2, <1>3 DEF Gate
<1> HIDE DEF g
<1>5. Controlled(c, input) = (IF input.src[c] # "return" THEN g
        ELSE IF GateSettled(g) THEN [Look(g) EXCEPT !.held = input.pid[c]] ELSE Look(g))
  BY DEF Controlled, g
<1>6. /\ Controlled(c, input) \in Gate
      /\ Controlled(c, input).open = g.open
  BY <1>1, <1>2, <1>4, <1>5
<1> QED
  BY <1>6 DEF g

LEMMA CommandedType ==
  ASSUME GateTypeOK, NEW c \in Circuit, NEW input \in Inputs
  PROVE  Commanded(c, input) \in GatePosition
<1>1. gate[c].held \in GatePosition \cup {None}
  BY DEF GateTypeOK, Gate
<1>2. input.pid[c] \in GatePosition
  BY DEF Inputs
<1>3. Proposed(c, input) \in GatePosition
  BY <1>1, <1>2 DEF Proposed, GatePosition
<1> QED
  BY <1>3 DEF Commanded, GatePosition

LEMMA FlowType ==
  ASSUME GateTypeOK, NEW c \in Circuit, NEW now
  PROVE  /\ Flowing(c, now) \in 0..Settle
         /\ now[c] = "open" /\ out[c] = "open"
              => Flowing(c, now) = Older(flow[c], Settle)
<1>1. flow[c] \in 0..Settle /\ Settle \in Nat
  BY GateAssumption DEF GateTypeOK
<1> QED
  BY <1>1, OlderType DEF Flowing

\* What Decide leaves in the gate, circuit by circuit.
LEMMA DecideType ==
  ASSUME GateTypeOK, NEW input \in Inputs,
         NEW written \in SUBSET Circuit, NEW shadow \in BOOLEAN,
         Decide(input, written, shadow)
  PROVE  /\ gate' \in [Circuit -> Gate]
         /\ source' \in Sources /\ shutBy' \in SUBSET Circuit
         /\ verdict' \in [Circuit -> {"measure", "flush", "hold", None}]
         /\ \A c \in Circuit :
              gate'[c].open =
                IF c \in written
                  THEN IF Commanded(c, input) = "shut" THEN None
                       ELSE IF GateAged(gate[c]).open = None THEN 0
                            ELSE GateAged(gate[c]).open
                  ELSE GateAged(gate[c]).open
<1> DEFINE g(c) == Controlled(c, input)
           cmd(c) == Commanded(c, input)
           r(c) == IF c \in written THEN GateRecord(g(c), cmd(c)) ELSE g(c)
           new(c) == IF shadow THEN Look(r(c)) ELSE r(c)
<1>1. gate' = [c \in Circuit |-> new(c)]
  BY DEF Decide
<1>2. ASSUME NEW c \in Circuit
      PROVE  /\ new(c) \in Gate
             /\ new(c).open = IF c \in written
                                THEN IF cmd(c) = "shut" THEN None
                                     ELSE IF GateAged(gate[c]).open = None THEN 0
                                          ELSE GateAged(gate[c]).open
                                ELSE GateAged(gate[c]).open
  <2>1. g(c) \in Gate /\ g(c).open = GateAged(gate[c]).open
    BY ControlledType
  <2>2. cmd(c) \in GatePosition
    BY CommandedType
  <2> HIDE DEF g, cmd
  <2>3. /\ GateRecord(g(c), cmd(c)) \in Gate
        /\ GateRecord(g(c), cmd(c)).open = (IF cmd(c) = "shut" THEN None
                                        ELSE IF g(c).open = None THEN 0 ELSE g(c).open)
    BY <2>1, <2>2, RecordType
  <2>4. r(c) \in Gate
    BY <2>1, <2>3
  <2>5. Look(r(c)) \in Gate /\ Look(r(c)).open = r(c).open
    BY <2>4, LookType
  <2> QED
    BY <2>1, <2>3, <2>4, <2>5
<1>3. verdict' \in [Circuit -> {"measure", "flush", "hold", None}]
  BY DEF Decide, Asked, Answer
<1>4. source' \in Sources /\ shutBy' \in SUBSET Circuit
  BY DEF Decide, Inputs, Sources
<1> HIDE DEF new
<1>5. gate' \in [Circuit -> Gate] /\ \A c \in Circuit : gate'[c] = new(c)
  BY <1>1, <1>2
<1> QED
  BY <1>2, <1>3, <1>4, <1>5

----------------------------------------------------------------------------
(* The type invariant *)

LEMMA FullCycleType ==
  ASSUME GateTypeOK, FullCycle
  PROVE  GateTypeOK'
<1>1. PICK input \in Inputs, shadow \in BOOLEAN :
        /\ Decide(input, Circuit, shadow)
        /\ out' = [c \in Circuit |-> Commanded(c, input)]
        /\ flow' = [c \in Circuit |-> Flowing(c, out')]
        /\ Wrote(Circuit)
  BY DEF FullCycle
<1>2. /\ gate' \in [Circuit -> Gate]
      /\ source' \in Sources /\ shutBy' \in SUBSET Circuit
      /\ verdict' \in [Circuit -> {"measure", "flush", "hold", None}]
  BY <1>1, DecideType
<1>3. out' \in [Circuit -> GatePosition]
  BY <1>1, CommandedType
<1>4. flow' \in [Circuit -> 0..Settle]
  BY <1>1, FlowType
<1>5. sinceWrite' \in 0..Trip
  BY <1>1, OlderType, GateAssumption DEF Wrote, GateTypeOK
<1>6. behind' \in SUBSET Circuit
  BY DEF FullCycle, ShutUnseen, GateTypeOK
<1> QED
  BY <1>2, <1>3, <1>4, <1>5, <1>6 DEF GateTypeOK, Sources

LEMMA FailsafeType ==
  ASSUME GateTypeOK, NEW stored, NEW positions \in [Circuit -> GatePosition],
         GateFailsafe(stored, positions)
  PROVE  /\ out' \in [Circuit -> GatePosition]
         /\ flow' \in [Circuit -> 0..Settle]
         /\ sinceWrite' \in 0..Trip
<1>1. PICK opened \in SUBSET Circuit :
        /\ out' = [c \in Circuit |-> IF c \in opened THEN "open" ELSE positions[c]]
        /\ flow' = [c \in Circuit |-> Flowing(c, out')]
        /\ Wrote(stored \cup opened)
  BY DEF GateFailsafe
<1>2. out' \in [Circuit -> GatePosition]
  BY <1>1 DEF GatePosition
<1>3. flow' \in [Circuit -> 0..Settle]
  BY <1>1, FlowType
<1>4. Older(sinceWrite, Trip) \in 0..Trip /\ 0 \in 0..Trip
  BY OlderType, GateAssumption DEF GateTypeOK
<1>5. sinceWrite' = Older(sinceWrite, Trip) \/ sinceWrite' = 0
  BY <1>1, Zenon DEF Wrote
<1>6. sinceWrite' \in 0..Trip
  BY <1>4, <1>5
<1> QED
  BY <1>2, <1>3, <1>6

LEMMA AbortedCycleType ==
  ASSUME GateTypeOK, AbortedCycle
  PROVE  GateTypeOK'
<1>1. PICK input \in Inputs, written \in SUBSET Circuit, stored \in SUBSET Circuit,
           shadow \in BOOLEAN :
        /\ Decide(input, written, shadow)
        /\ GateFailsafe(stored,
             [c \in Circuit |-> IF c \in stored THEN Commanded(c, input) ELSE out[c]])
        /\ ShutUnseen({c \in stored : Commanded(c, input) = "shut"})
  BY Zenon DEF AbortedCycle
<1> DEFINE positions == [c \in Circuit |-> IF c \in stored
                           THEN Commanded(c, input) ELSE out[c]]
<1>3. positions \in [Circuit -> GatePosition]
  BY CommandedType DEF GateTypeOK
<1>4. /\ gate' \in [Circuit -> Gate]
      /\ source' \in Sources /\ shutBy' \in SUBSET Circuit
      /\ verdict' \in [Circuit -> {"measure", "flush", "hold", None}]
  BY <1>1, DecideType
<1>5. GateFailsafe(stored, positions)
  BY <1>1
<1> HIDE DEF positions
<1>6. /\ out' \in [Circuit -> GatePosition]
      /\ flow' \in [Circuit -> 0..Settle]
      /\ sinceWrite' \in 0..Trip
  BY <1>3, <1>5, FailsafeType
<1>7. behind' \in SUBSET Circuit
  BY <1>1 DEF ShutUnseen, GateTypeOK
<1> QED
  BY <1>4, <1>6, <1>7 DEF GateTypeOK, Sources

LEMMA StaleCycleType ==
  ASSUME GateTypeOK, StaleCycle
  PROVE  GateTypeOK'
<1>1. gate' \in [Circuit -> Gate]
  BY AgedType DEF StaleCycle, GateTypeOK
<1>2. verdict' \in [Circuit -> {"measure", "flush", "hold", None}]
  BY DEF StaleCycle, NoVerdict
<1>3. /\ out' \in [Circuit -> GatePosition]
      /\ flow' \in [Circuit -> 0..Settle]
      /\ sinceWrite' \in 0..Trip
  BY FailsafeType DEF StaleCycle, GateTypeOK
<1>4. behind' \in SUBSET Circuit
  BY DEF StaleCycle, ShutUnseen, GateTypeOK
<1> QED
  BY <1>1, <1>2, <1>3, <1>4 DEF StaleCycle, GateTypeOK

LEMMA ExpireType ==
  ASSUME GateTypeOK, Expire
  PROVE  GateTypeOK'
BY GateAssumption DEF Expire, GateTypeOK, NoVerdict, GatePosition, ShutUnseen

LEMMA InitType == GateInit => GateTypeOK
BY GateAssumption DEF GateInit, GateTypeOK, Gate, NewGate, NoVerdict

\* Every variable keeps its type, for every set of circuits and all clocks: the
\* gate never holds a position that was not commanded.
THEOREM Typed == GateSpec => []GateTypeOK
<1>1. GateTypeOK /\ [GateNext]_gateVars => GateTypeOK'
  <2> SUFFICES ASSUME GateTypeOK, [GateNext]_gateVars
               PROVE  GateTypeOK'
    OBVIOUS
  <2>1. CASE GateNext
    BY <2>1, FullCycleType, AbortedCycleType, StaleCycleType, ExpireType DEF GateNext
  <2>2. CASE UNCHANGED gateVars
    BY <2>2 DEF gateVars, asked, GateTypeOK
  <2> QED
    BY <2>1, <2>2
<1> QED
  BY InitType, <1>1, PTL DEF GateSpec

----------------------------------------------------------------------------
(* The return loop runs on moving water *)

\* The gate's clock never runs ahead of the water: what it takes for open is
\* open, and has been for at least as long - or was shut behind its back.
Runs(c) == out[c] = "open" /\ flow[c] >= gate[c].open
InStep == \A c \in Circuit \ behind : gate[c].open # None => Runs(c)

LEMMA Monotone ==
  ASSUME NEW n \in Nat, NEW a \in 0..n, NEW b \in 0..n, a <= b
  PROVE  Older(a, n) <= Older(b, n)
BY DEF Older

\* A circuit that is in step and stays open is in step a cycle later.
LEMMA Ahead ==
  ASSUME GateTypeOK, NEW c \in Circuit, gate[c].open # None, Runs(c)
  PROVE  /\ GateAged(gate[c]).open = Older(gate[c].open, Settle)
         /\ GateAged(gate[c]).open \in 0..Settle
         /\ GateAged(gate[c]).open <= Older(flow[c], Settle)
         /\ Older(flow[c], Settle) \in 0..Settle
<1>1. gate[c] \in Gate /\ gate[c].open \in 0..Settle /\ flow[c] \in 0..Settle
  BY DEF GateTypeOK, Gate
<1>2. gate[c].open <= flow[c]
  BY <1>1 DEF Runs
<1>3. Settle \in Nat
  BY GateAssumption
<1>4. Older(gate[c].open, Settle) <= Older(flow[c], Settle)
  BY <1>1, <1>2, <1>3, Monotone
<1>5. Older(gate[c].open, Settle) \in 0..Settle /\ Older(flow[c], Settle) \in 0..Settle
  BY <1>1, <1>3, OlderType
<1>6. GateAged(gate[c]).open = Older(gate[c].open, Settle)
  BY <1>1, AgedType
<1> QED
  BY <1>4, <1>5, <1>6

LEMMA StillClosed ==
  ASSUME GateTypeOK, NEW c \in Circuit, gate[c].open = None
  PROVE  GateAged(gate[c]).open = None
BY AgedType DEF GateTypeOK

\* The step a circuit takes in any cycle: its clock is aged, or restarted by a
\* write that opens it, and its output is open in the end.
LEMMA CircuitInStep ==
  ASSUME GateTypeOK, NEW c \in Circuit,
         gate[c].open # None => Runs(c),
         gate'[c].open # None,
         out'[c] = "open",
         flow'[c] = Flowing(c, out'),
         \/ gate'[c].open = GateAged(gate[c]).open
         \/ gate'[c].open = 0 /\ GateAged(gate[c]).open = None
  PROVE  Runs(c)'
<1>1. flow'[c] \in 0..Settle
  BY FlowType
<1>2. CASE gate[c].open = None
  BY <1>1, <1>2, StillClosed DEF Runs
<1>3. CASE gate[c].open # None
  <2>1. flow'[c] = Older(flow[c], Settle)
    BY <1>3, FlowType DEF Runs
  <2> QED
    BY <1>3, <2>1, Ahead, GateAssumption DEF Runs
<1> QED
  BY <1>2, <1>3

\* A circuit is measured on the strength of the clock it had.
LEMMA MeasuredMoves ==
  ASSUME GateTypeOK, InStep, NEW c \in Circuit \ behind, NEW input \in Inputs,
         Asked(c, input) = "measure"
  PROVE  Moving(c)
<1>1. GateAged(gate[c]).open # None /\ GateAged(gate[c]).open >= Settle
  BY GateAssumption DEF Asked, Answer, GateSettled
<1>2. gate[c].open # None
  BY <1>1, StillClosed
<1>3. Runs(c)
  BY <1>2 DEF InStep
<1> QED
  BY <1>1, <1>2, <1>3, Ahead, GateAssumption DEF Moving, Runs

Measured ==
  \A c \in Circuit : verdict'[c] = "measure" /\ c \notin behind => Moving(c)

LEMMA FullCycleInStep ==
  ASSUME GateTypeOK, InStep, FullCycle
  PROVE  InStep' /\ Measured
<1>1. PICK input \in Inputs, shadow \in BOOLEAN :
        /\ Decide(input, Circuit, shadow)
        /\ out' = [c \in Circuit |-> Commanded(c, input)]
        /\ flow' = [c \in Circuit |-> Flowing(c, out')]
        /\ ShutUnseen({})
  BY DEF FullCycle
<1>2. \A c \in Circuit :
        gate'[c].open = IF Commanded(c, input) = "shut" THEN None
                        ELSE IF GateAged(gate[c]).open = None THEN 0
                             ELSE GateAged(gate[c]).open
  <2>1. Circuit \in SUBSET Circuit /\ Decide(input, Circuit, shadow)
    BY <1>1
  <2> QED
    BY <2>1, DecideType
<1>3. ASSUME NEW c \in Circuit \ behind', gate'[c].open # None
      PROVE  Runs(c)'
  <2>1. c \notin behind
    BY <1>1, <1>3 DEF ShutUnseen
  <2>2. Commanded(c, input) = "open" /\ out'[c] = "open"
    BY <1>1, <1>2, <1>3, CommandedType DEF GatePosition
  <2>3. flow'[c] = Flowing(c, out')
    BY <1>1
  <2>4. gate[c].open # None => Runs(c)
    BY <2>1 DEF InStep
  <2>5. \/ gate'[c].open = GateAged(gate[c]).open
        \/ gate'[c].open = 0 /\ GateAged(gate[c]).open = None
    BY <1>2, <2>2
  <2> QED
    BY <1>3, <2>2, <2>3, <2>4, <2>5, CircuitInStep
<1>4. Measured
  BY <1>1, MeasuredMoves DEF Decide, Measured
<1> QED
  BY <1>3, <1>4 DEF InStep

LEMMA AbortedCycleInStep ==
  ASSUME GateTypeOK, InStep, AbortedCycle
  PROVE  InStep' /\ Measured
<1>1. PICK input \in Inputs, written \in SUBSET Circuit, stored \in SUBSET Circuit,
           shadow \in BOOLEAN :
        /\ stored = written \/ \E failed \in Circuit : stored = written \cup {failed}
        /\ Decide(input, written, shadow)
        /\ GateFailsafe(stored,
             [c \in Circuit |-> IF c \in stored THEN Commanded(c, input) ELSE out[c]])
        /\ ShutUnseen({c \in stored : Commanded(c, input) = "shut"})
  BY Zenon DEF AbortedCycle
<1>2. PICK opened \in SUBSET Circuit :
        /\ out' = [c \in Circuit |->
             IF c \in opened THEN "open"
             ELSE [d \in Circuit |->
                     IF d \in stored THEN Commanded(d, input) ELSE out[d]][c]]
        /\ flow' = [c \in Circuit |-> Flowing(c, out')]
  BY <1>1 DEF GateFailsafe
<1>3. \A c \in Circuit :
        gate'[c].open =
          IF c \in written
            THEN IF Commanded(c, input) = "shut" THEN None
                 ELSE IF GateAged(gate[c]).open = None THEN 0 ELSE GateAged(gate[c]).open
            ELSE GateAged(gate[c]).open
  BY <1>1, DecideType
<1>4. written \subseteq stored
  BY <1>1
<1>5. ASSUME NEW c \in Circuit \ behind', gate'[c].open # None
      PROVE  Runs(c)'
  <2>1. c \notin behind /\ ~(c \in stored /\ Commanded(c, input) = "shut")
    BY <1>1, <1>5 DEF ShutUnseen
  <2>2. c \in stored => Commanded(c, input) = "open"
    BY <2>1, CommandedType DEF GatePosition
  <2>3. gate[c].open # None => Runs(c)
    BY <2>1 DEF InStep
  <2>4. \/ gate'[c].open = GateAged(gate[c]).open
        \/ c \in stored /\ gate'[c].open = 0 /\ GateAged(gate[c]).open = None
    BY <1>3, <1>4, <1>5
  <2>5. out'[c] = "open"
    <3>1. CASE c \in stored
      BY <1>2, <2>2, <3>1
    <3>2. CASE c \notin stored
      <4>1. gate[c].open # None
        BY <1>5, <2>4, <3>2, StillClosed
      <4> QED
        BY <1>2, <2>3, <3>2, <4>1 DEF Runs
    <3> QED
      BY <3>1, <3>2
  <2>6. flow'[c] = Flowing(c, out')
    BY <1>2
  <2> QED
    BY <1>5, <2>3, <2>4, <2>5, <2>6, CircuitInStep
<1>6. Measured
  BY <1>1, MeasuredMoves DEF Decide, Measured
<1> QED
  BY <1>5, <1>6 DEF InStep

LEMMA StaleCycleInStep ==
  ASSUME GateTypeOK, InStep, StaleCycle
  PROVE  InStep' /\ Measured
<1>1. PICK opened \in SUBSET Circuit :
        /\ out' = [c \in Circuit |-> IF c \in opened THEN "open" ELSE out[c]]
        /\ flow' = [c \in Circuit |-> Flowing(c, out')]
  BY DEF StaleCycle, GateFailsafe
<1>2. \A c \in Circuit : gate'[c] = GateAged(gate[c])
  BY DEF StaleCycle
<1>3. ASSUME NEW c \in Circuit \ behind', gate'[c].open # None
      PROVE  Runs(c)'
  <2>1. c \notin behind
    BY <1>3 DEF StaleCycle, ShutUnseen
  <2>2. gate[c].open # None /\ Runs(c)
    BY <1>2, <1>3, <2>1, StillClosed DEF InStep
  <2>3. out'[c] = "open" /\ flow'[c] = Flowing(c, out')
    BY <1>1, <2>2 DEF Runs
  <2> QED
    BY <1>2, <1>3, <2>2, <2>3, CircuitInStep
<1>4. Measured
  BY GateAssumption DEF StaleCycle, NoVerdict, Measured
<1> QED
  BY <1>3, <1>4 DEF InStep

LEMMA ExpireInStep ==
  ASSUME GateTypeOK, InStep, Expire
  PROVE  InStep' /\ Measured
<1>1. InStep'
  BY DEF Expire, ShutUnseen, InStep
<1>2. Measured
  BY GateAssumption DEF Expire, NoVerdict, Measured
<1> QED
  BY <1>1, <1>2

LEMMA InitInStep == GateInit => InStep
BY DEF GateInit, InStep, NewGate

\* The return loop is only run on a reading whose water has been moving for the
\* settling time, whatever overrides, sources, flushes, failed writes and skipped
\* cycles come in between, unless the output was shut and the gate not told.
THEOREM MovingWater == GateSpec => MeasuresMovingWater
<1>1. InStep /\ GateTypeOK /\ [GateNext]_gateVars => InStep' /\ [Measured]_gateVars
  <2> SUFFICES ASSUME InStep, GateTypeOK, [GateNext]_gateVars
               PROVE  InStep' /\ [Measured]_gateVars
    OBVIOUS
  <2>1. CASE GateNext
    BY <2>1, FullCycleInStep, AbortedCycleInStep, StaleCycleInStep, ExpireInStep DEF GateNext
  <2>2. CASE UNCHANGED gateVars
    BY <2>2 DEF gateVars, asked, InStep, Runs
  <2> QED
    BY <2>1, <2>2
<1>2. GateSpec => [][Measured]_gateVars
  BY InitInStep, Typed, <1>1, PTL DEF GateSpec
<1> QED
  BY <1>2 DEF MeasuresMovingWater, Measured
=============================================================================
