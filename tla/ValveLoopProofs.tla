--------------------------- MODULE ValveLoopProofs ---------------------------
(***************************************************************************)
(* Proofs about the way from the cycle to the actuators, for any valves,    *)
(* watchdog time, age limit, arming interval and reconnect ceiling: the     *)
(* types, and that no step keeps a circuit with frost from being opened.    *)
(***************************************************************************)
EXTENDS ValveLoop, TLAPS

LEMMA Limits ==
  /\ WdTime \in Nat /\ Stale \in Nat /\ Rearm \in Nat /\ BackoffMax \in Nat
  /\ 1 <= WdTime /\ 1 <= Stale /\ 1 <= Rearm /\ 1 <= BackoffMax
BY ValveLoopAssumption

(***************************************************************************)
(* The coupler                                                              *)
(***************************************************************************)

\* What a write makes of the coupler is a coupler ...
LEMMA CouplerTyped ==
  ASSUME NEW c \in Coupler
  PROVE  /\ Restarted(c) \in Coupler /\ Tripped(c) \in Coupler /\ Aged(c) \in Coupler
         /\ \A x \in {0, 1} : Toggled(c, x) \in Coupler
         /\ \A v \in Valve, pos \in {Shut, Regulated, Open} : Driven(c, v, pos) \in Coupler
<1>1. Restarted(c) \in Coupler
  <2>1. WdTime \in 0..WdTime
    BY Limits
  <2> QED
    BY <2>1 DEF Restarted, Coupler
<1>2. Tripped(c) \in Coupler
  <2> DEFINE shut == [v \in Valve |-> Shut]
  <2>1. shut \in [Valve -> {Shut, Regulated, Open}] /\ 0 \in 0..WdTime
    BY Limits
  <2>2. Tripped(c) = IF c.wd # "active" THEN c
                     ELSE [c EXCEPT !.wd = "expired", !.left = 0, !.out = shut]
    BY DEF Tripped
  <2> HIDE DEF shut
  <2> QED
    BY <2>1, <2>2 DEF Coupler
<1>3. Aged(c) \in Coupler
  <2>1. CASE c.wd = "active" /\ c.left > 1
    <3>1. c.left - 1 \in 0..WdTime
      BY <2>1, Limits DEF Coupler
    <3> QED
      BY <2>1, <3>1 DEF Aged, Coupler
  <2> QED
    BY <1>2, <2>1 DEF Aged
<1>4. ASSUME NEW x \in {0, 1}
      PROVE  Toggled(c, x) \in Coupler
  BY <1>1 DEF Toggled, Coupler
<1>5. ASSUME NEW v \in Valve, NEW pos \in {Shut, Regulated, Open}
      PROVE  Driven(c, v, pos) \in Coupler
  <2>1. [c.out EXCEPT ![v] = pos] \in [Valve -> {Shut, Regulated, Open}]
    BY DEF Coupler
  <2>2. (IF c.wd = "active" THEN WdTime ELSE 0) \in 0..WdTime
    BY Limits
  <2> QED
    BY <2>1, <2>2 DEF Driven, Coupler
<1> QED
  BY <1>1, <1>2, <1>3, <1>4, <1>5

\* ... with the outputs it had, unless it trips.
LEMMA CouplerHolds ==
  ASSUME NEW c \in Coupler
  PROVE  /\ Restarted(c).out = c.out
         /\ Aged(c).out = c.out \/ Aged(c).wd = "expired"
         /\ c.wd = "expired" => Aged(c) = c
         /\ Tripped(c).out = c.out \/ Tripped(c).wd = "expired"
         /\ \A x \in {0, 1} : Toggled(c, x).out = c.out
         /\ \A v, w \in Valve, pos \in {Shut, Regulated, Open} :
              Driven(c, v, pos).out[w] = IF w = v THEN pos ELSE c.out[w]
BY DEF Restarted, Aged, Tripped, Toggled, Driven, Coupler

(***************************************************************************)
(* Types                                                                    *)
(***************************************************************************)

\* TypeOK in three parts: the wire to the coupler with its clocks, the cycle, and
\* the house with what is told of it.
WireOK ==
  /\ coupler \in Coupler
  /\ connected \in BOOLEAN /\ backoff \in 1..BackoffMax /\ retryIn \in 0..BackoffMax
  /\ age \in 0..Stale + 1 /\ sinceArm \in 0..Rearm

CycleOK ==
  /\ pc \in {"start", "wait", "read", "kick", "toggle", "status", "arm", "check",
             "write", "rest", "failsafe"}
  /\ todo \subseteq Valve /\ candidates \in {<<>>, <<0>>, <<1>>, <<1, 0>>}
  /\ pc = "toggle" => candidates # <<>>
  /\ reason \in Reason

TopicOK ==
  /\ cold \subseteq Valve /\ manual \subseteq Valve
  /\ link \in BOOLEAN /\ global \in Reason /\ told \in [Valve -> BOOLEAN]

LEMMA Parts == TypeOK <=> WireOK /\ CycleOK /\ TopicOK /\ fault \in {"none", "sensors", "other"}
BY DEF TypeOK, WireOK, CycleOK, TopicOK

LEMMA InitTyped == Init => TypeOK
<1> SUFFICES ASSUME Init PROVE TypeOK
  OBVIOUS
<1>1. coupler \in Coupler
  <2> DEFINE shut == [v \in Valve |-> Shut]
  <2>1. shut \in [Valve -> {Shut, Regulated, Open}] /\ 0 \in 0..WdTime
    BY Limits
  <2>2. coupler = [wd |-> "inactive", trigger |-> 0, left |-> 0, out |-> shut]
    BY DEF Init
  <2> HIDE DEF shut
  <2> QED
    BY <2>1, <2>2 DEF Coupler
<1>2. WireOK
  <2>1. connected \in BOOLEAN
    BY DEF Init
  <2>2. /\ backoff \in 1..BackoffMax /\ retryIn \in 0..BackoffMax
        /\ age \in 0..Stale + 1 /\ sinceArm \in 0..Rearm
    BY Limits DEF Init
  <2> QED
    BY <1>1, <2>1, <2>2 DEF WireOK
<1>3. CycleOK
  BY DEF Init, CycleOK, Reason
<1>4. TopicOK
  BY DEF Init, TopicOK, Reason
<1> QED
  BY <1>2, <1>3, <1>4, Parts DEF Init

\* A clock, a wait and the delay of a reconnect.
LEMMA ClocksTyped ==
  ASSUME WireOK, Passes
  PROVE  age' \in 0..Stale + 1 /\ sinceArm' \in 0..Rearm
BY Limits DEF Passes, Later, WireOK

LEMMA SoonerTyped == ASSUME NEW wait \in 0..BackoffMax PROVE Sooner(wait) \in 0..BackoffMax
BY Limits DEF Sooner

LEMMA UnansweredTyped ==
  ASSUME WireOK, NEW c \in Coupler, Unanswered(c)
  PROVE  WireOK'
<1>1. coupler' \in Coupler
  BY CouplerTyped DEF Unanswered
<1>2. connected' \in BOOLEAN
  BY DEF Unanswered, WireOK
<1>3. backoff' \in 1..BackoffMax /\ retryIn' \in 0..BackoffMax
  BY SoonerTyped DEF Unanswered, WireOK
<1> QED
  BY <1>1, <1>2, <1>3, ClocksTyped DEF Unanswered, WireOK

LEMMA AnsweredTyped ==
  ASSUME WireOK, NEW c \in Coupler, Answered(c)
  PROVE  WireOK'
BY DEF Answered, session, clocks, WireOK

LEMMA ConnectTyped ==
  ASSUME WireOK, Connects \/ BacksOff \/ ConnectFails
  PROVE  WireOK'
<1>1. CASE Connects
  BY <1>1, Limits DEF Connects, clocks, WireOK
<1>2. CASE BacksOff
  BY <1>2, Zenon DEF BacksOff, session, clocks, WireOK
<1>3. CASE ConnectFails
  <2>1. coupler' \in Coupler
    BY <1>3, CouplerTyped DEF ConnectFails, WireOK
  <2>2. backoff' \in 1..BackoffMax /\ retryIn' \in 0..BackoffMax
    BY <1>3, Limits DEF ConnectFails, Longer, WireOK
  <2> QED
    BY <1>3, <2>1, <2>2, ClocksTyped DEF ConnectFails, WireOK
<1> QED
  BY <1>1, <1>2, <1>3

LEMMA PositionTyped == \A v : Position(v) \in {Shut, Regulated, Open}
BY DEF Position

LEMMA CandidateTyped ==
  \A s \in {<<0>>, <<1>>, <<1, 0>>} :
    Head(s) \in {0, 1} /\ Tail(s) \in {<<>>, <<0>>, <<1>>, <<1, 0>>}
<1>1. \A x : Head(<<x>>) = x /\ Tail(<<x>>) = <<>>
  OBVIOUS
<1>2. Head(<<1, 0>>) = 1 /\ Tail(<<1, 0>>) = <<0>>
  OBVIOUS
<1> QED
  BY <1>1, <1>2

\* What an action does to the wire ...
LEMMA WireStep ==
  ASSUME TypeOK, Next
  PROVE  WireOK'
<1>1. WireOK /\ CycleOK /\ coupler \in Coupler
  BY Parts DEF WireOK
<1>2. ASSUME UNCHANGED <<coupler, session, clocks>>
      PROVE  WireOK'
  BY <1>1, <1>2, Zenon DEF session, clocks, WireOK
<1>3. CASE Start \/ IsStale \/ IsFresh \/ RestOk \/ RestRaises \/ SafeDone
  BY <1>2, <1>3 DEF Start, IsStale, IsFresh, RestOk, RestRaises, SafeDone
<1>4. CASE Sleep
  <2>1. coupler' \in Coupler /\ retryIn' \in 0..BackoffMax
    BY <1>1, <1>4, CouplerTyped, SoonerTyped DEF Sleep, WireOK
  <2> QED
    BY <1>1, <1>4, <2>1, ClocksTyped DEF Sleep, WireOK
<1>5. CASE Connects \/ ReadNotTried \/ ReadNotConnected \/ WriteNotTried \/ WriteNotConnected
           \/ \E v \in Valve : SafeNotTried(v) \/ SafeNotConnected(v)
  BY <1>1, <1>5, ConnectTyped
     DEF ReadNotTried, ReadNotConnected, WriteNotTried, WriteNotConnected,
         SafeNotTried, SafeNotConnected
<1>6. CASE ReadOk
  BY <1>1, <1>6, Limits DEF ReadOk, session, WireOK
<1>7. CASE ReadRefused \/ ToggleRefused \/ WriteRefused \/ \E v \in Valve : SafeRefused(v)
  BY <1>1, <1>7, AnsweredTyped DEF ReadRefused, ToggleRefused, WriteRefused, SafeRefused
<1>8. CASE ReadFailed \/ TriggerUnread \/ StatusUnread
  BY <1>1, <1>8, UnansweredTyped DEF ReadFailed, TriggerUnread, StatusUnread
<1>9. CASE TriggerRead
  BY <1>2, <1>9 DEF TriggerRead
<1>10. CASE ToggleOk \/ ToggleFailed
  <2>1. Head(candidates) \in {0, 1}
    BY <1>1, <1>10, CandidateTyped DEF ToggleOk, ToggleFailed, Tried, CycleOK
  <2>2. Toggled(coupler, Head(candidates)) \in Coupler
    BY <1>1, <2>1, CouplerTyped
  <2> QED
    BY <1>1, <1>10, <2>2, AnsweredTyped, UnansweredTyped DEF ToggleOk, ToggleFailed
<1>11. CASE StatusRead
  BY <1>1, <1>11, Limits DEF StatusRead, session, WireOK
<1>12. CASE ArmOk \/ ArmFailed
  <2>1. Restarted(coupler) \in Coupler
    BY <1>1, CouplerTyped
  <2> QED
    BY <1>1, <1>12, <2>1, AnsweredTyped, UnansweredTyped DEF ArmOk, ArmFailed
<1>13. CASE WriteFailed \/ \E v \in Valve : WriteOk(v)
  <2>1. \A v \in Valve : Driven(coupler, v, Position(v)) \in Coupler
    BY <1>1, CouplerTyped, PositionTyped
  <2>2. todo \subseteq Valve
    BY <1>1 DEF CycleOK
  <2> QED
    BY <1>1, <1>13, <2>1, <2>2, AnsweredTyped, UnansweredTyped DEF WriteOk, WriteFailed
<1>14. CASE \E v \in Valve : SafeOk(v) \/ SafeFailed(v)
  <2>1. \A v \in Valve : Driven(coupler, v, Open) \in Coupler
    BY <1>1, CouplerTyped
  <2> QED
    BY <1>1, <1>14, <2>1, AnsweredTyped, UnansweredTyped DEF SafeOk, SafeFailed
<1>15. CASE PlaneConnects \/ PlaneDrops \/ \E v \in Valve : HouseChanges(v)
  BY <1>2, <1>15 DEF PlaneConnects, PlaneDrops, HouseChanges
<1>16. CASE Restart
  <2>1. coupler' \in Coupler
    BY <1>1, <1>16, CouplerTyped DEF Restart
  <2>2. connected' \in BOOLEAN
    BY <1>16 DEF Restart
  <2>3. /\ backoff' \in 1..BackoffMax /\ retryIn' \in 0..BackoffMax
        /\ age' \in 0..Stale + 1 /\ sinceArm' \in 0..Rearm
    BY <1>16, Limits DEF Restart
  <2> QED
    BY <2>1, <2>2, <2>3 DEF WireOK
<1> QED
  BY <1>3, <1>4, <1>5, <1>6, <1>7, <1>8, <1>9, <1>10, <1>11, <1>12, <1>13, <1>14, <1>15, <1>16
     DEF Next, Loop, Cycle, SensorsFail, OtherFault, Environment

\* ... to the place where the cycle is ...
LEMMA CycleStep ==
  ASSUME TypeOK, Next
  PROVE  CycleOK'
<1>1. /\ pc \in {"start", "wait", "read", "kick", "toggle", "status", "arm", "check",
                "write", "rest", "failsafe"}
      /\ todo \subseteq Valve /\ candidates \in {<<>>, <<0>>, <<1>>, <<1, 0>>}
      /\ pc = "toggle" => candidates # <<>>
      /\ reason \in Reason
  BY DEF TypeOK
<1>2. CASE Start \/ Sleep \/ Connects \/ ReadOk \/ ReadRefused \/ ReadFailed \/ ReadNotTried
           \/ ReadNotConnected \/ ArmOk \/ ArmFailed \/ StatusUnread \/ StatusRead \/ RestOk
           \/ SafeDone \/ PlaneConnects \/ PlaneDrops \/ \E v \in Valve : HouseChanges(v)
  <2>1. UNCHANGED <<todo, candidates, reason>>
    BY <1>2 DEF Start, Sleep, Connects, ReadOk, ReadRefused, ReadFailed, ReadNotTried,
         ReadNotConnected, ArmOk, ArmFailed, StatusUnread, StatusRead, RestOk, SafeDone,
         PlaneConnects, PlaneDrops, HouseChanges, rest
  <2>2. pc' = pc \/ pc' \in {"read", "kick", "status", "arm", "check", "wait"}
    BY <1>2 DEF Start, Sleep, Connects, ReadOk, ReadRefused, ReadFailed, ReadNotTried,
         ReadNotConnected, ArmOk, ArmFailed, StatusUnread, StatusRead, RestOk, SafeDone,
         PlaneConnects, PlaneDrops, HouseChanges
  <2> QED
    BY <1>1, <2>1, <2>2 DEF CycleOK
<1>3. CASE TriggerRead \/ TriggerUnread
  <2>1. pc' = "toggle" /\ UNCHANGED <<todo, reason>>
    BY <1>3 DEF TriggerRead, TriggerUnread
  <2>2. candidates' \in {<<0>>, <<1>>, <<1, 0>>}
    BY <1>3 DEF TriggerRead, TriggerUnread, Others, TypeOK, Coupler
  <2>3. \A s \in {<<0>>, <<1>>, <<1, 0>>} : s # <<>>
    OBVIOUS
  <2> QED
    BY <1>1, <2>1, <2>2, <2>3 DEF CycleOK
<1>4. ASSUME NEW accepted \in BOOLEAN, Tried(accepted)
      PROVE  CycleOK'
  <2>1. candidates' \in {<<>>, <<0>>, <<1>>, <<1, 0>>}
    BY <1>1, <1>4, CandidateTyped DEF Tried
  <2> QED
    BY <1>1, <1>4, <2>1 DEF Tried, CycleOK
<1>5. CASE ToggleOk \/ ToggleRefused \/ ToggleFailed
  BY <1>4, <1>5 DEF ToggleOk, ToggleRefused, ToggleFailed
<1>6. CASE IsStale \/ IsFresh
  BY <1>1, <1>6 DEF IsStale, IsFresh, Failsafe, rest, CycleOK, Reason
<1>7. ASSUME NEW v \in Valve, WriteOk(v)
      PROVE  CycleOK'
  BY <1>1, <1>7 DEF WriteOk, CycleOK
<1>8. CASE WriteRefused \/ WriteNotTried \/ WriteNotConnected \/ WriteFailed \/ RestRaises
  BY <1>1, <1>8 DEF WriteRefused, WriteNotTried, WriteNotConnected, WriteFailed, WriteRaises,
       RestRaises, Failsafe, rest, CycleOK, Reason
<1>9. ASSUME NEW v \in Valve, \/ SafeOk(v) \/ SafeRefused(v) \/ SafeNotTried(v)
                              \/ SafeNotConnected(v) \/ SafeFailed(v)
      PROVE  CycleOK'
  BY <1>1, <1>9 DEF SafeOk, SafeRefused, SafeNotTried, SafeNotConnected, SafeFailed, Handled,
       rest, CycleOK
<1>10. CASE Restart
  BY <1>10 DEF Restart, CycleOK, Reason
<1> QED
  BY <1>2, <1>3, <1>5, <1>6, <1>7, <1>8, <1>9, <1>10
     DEF Next, Loop, Cycle, SensorsFail, OtherFault, Environment

\* ... and to the house and its topics.
LEMMA TopicStep ==
  ASSUME TypeOK, Next
  PROVE  TopicOK'
<1>1. TopicOK /\ reason \in Reason /\ "none" \in Reason
  BY Parts DEF CycleOK, Reason
<1>2. \A topic, value \in Reason : Published(topic, value) \in Reason
  BY DEF Published
<1>3. \A topic, value \in BOOLEAN : Published(topic, value) \in BOOLEAN
  BY DEF Published
<1>4. ASSUME UNCHANGED <<house, plane>>
      PROVE  TopicOK'
  BY <1>1, <1>4, Zenon DEF house, plane, TopicOK
<1>5. CASE Start
  <2>1. told' = [v \in Valve |-> Published(told[v], FALSE)]
    BY <1>5 DEF Start
  <2>2. told' \in [Valve -> BOOLEAN]
    BY <1>1, <1>3, <2>1 DEF TopicOK
  <2>3. global' \in Reason /\ UNCHANGED <<cold, manual, link>>
    BY <1>1, <1>2, <1>5 DEF Start, house, TopicOK
  <2> QED
    BY <1>1, <2>2, <2>3, Zenon DEF TopicOK
<1>6. CASE IsFresh \/ SafeDone
  <2>1. global' \in Reason /\ UNCHANGED <<cold, manual, link, told>>
    BY <1>1, <1>2, <1>6 DEF IsFresh, SafeDone, house, TopicOK
  <2> QED
    BY <1>1, <2>1, Zenon DEF TopicOK
<1>7. CASE \E v \in Valve : WriteOk(v)
  <2>1. PICK v \in Valve : Tell(v)
    BY <1>7 DEF WriteOk
  <2>2. told' \in [Valve -> BOOLEAN]
    <3> DEFINE said == Published(told[v], v \in cold)
    <3>1. told \in [Valve -> BOOLEAN] /\ (v \in cold) \in BOOLEAN
      BY <1>1 DEF TopicOK
    <3>2. said \in BOOLEAN
      BY <1>3, <3>1, Zenon
    <3>3. told' = [told EXCEPT ![v] = said]
      BY <2>1 DEF Tell
    <3> HIDE DEF said
    <3> QED
      BY <3>1, <3>2, <3>3
  <2>3. UNCHANGED <<cold, manual, link, global>>
    BY <1>7 DEF WriteOk, house
  <2> QED
    BY <1>1, <2>2, <2>3, Zenon DEF TopicOK
<1>8. CASE PlaneConnects \/ PlaneDrops
  <2>1. link' \in BOOLEAN /\ UNCHANGED <<cold, manual, global, told>>
    BY <1>8 DEF PlaneConnects, PlaneDrops, house
  <2> QED
    BY <1>1, <2>1, Zenon DEF TopicOK
<1>9. CASE Restart
  <2>1. link' \in BOOLEAN /\ manual' = {} /\ UNCHANGED <<cold, global, told>>
    BY <1>9 DEF Restart
  <2> QED
    BY <1>1, <2>1 DEF TopicOK
<1>10. CASE \E v \in Valve : HouseChanges(v)
  <2>1. cold' \subseteq Valve /\ manual' \subseteq Valve
    BY <1>1, <1>10 DEF HouseChanges, TopicOK
  <2>2. UNCHANGED plane
    BY <1>10 DEF HouseChanges
  <2> QED
    BY <1>1, <2>1, <2>2, Zenon DEF plane, TopicOK
<1>11. CASE Sleep \/ Connects \/ ReadOk \/ ReadRefused \/ ReadFailed \/ ReadNotTried
            \/ ReadNotConnected \/ ArmOk \/ ArmFailed \/ StatusUnread \/ StatusRead \/ RestOk
            \/ TriggerRead \/ TriggerUnread \/ ToggleOk \/ ToggleRefused \/ ToggleFailed
            \/ IsStale \/ WriteRefused \/ WriteNotTried \/ WriteNotConnected \/ WriteFailed
            \/ RestRaises
            \/ \E v \in Valve : SafeOk(v) \/ SafeRefused(v) \/ SafeNotTried(v)
                                \/ SafeNotConnected(v) \/ SafeFailed(v)
  BY <1>4, <1>11
     DEF Sleep, Connects, ReadOk, ReadRefused, ReadFailed, ReadNotTried, ReadNotConnected,
         ArmOk, ArmFailed, StatusUnread, StatusRead, RestOk, TriggerRead, TriggerUnread,
         ToggleOk, ToggleRefused, ToggleFailed, Tried, IsStale, WriteRefused, WriteNotTried,
         WriteNotConnected, WriteFailed, WriteRaises, RestRaises, SafeOk, SafeRefused,
         SafeNotTried, SafeNotConnected, SafeFailed, Handled, rest
<1> QED
  BY <1>5, <1>6, <1>7, <1>8, <1>9, <1>10, <1>11
     DEF Next, Loop, Cycle, SensorsFail, OtherFault, Environment

LEMMA TypeStep == TypeOK /\ [Next]_vars => TypeOK'
<1> SUFFICES ASSUME TypeOK, [Next]_vars PROVE TypeOK'
  OBVIOUS
<1>1. CASE Next
  <2>1. fault' \in {"none", "sensors", "other"}
    BY <1>1 DEF Next, Loop, TypeOK
  <2> QED
    BY <1>1, <2>1, WireStep, CycleStep, TopicStep, Zenon
       DEF TypeOK, WireOK, CycleOK, TopicOK
<1>2. CASE UNCHANGED vars
  BY <1>2, Zenon DEF vars, session, clocks, house, plane, TypeOK
<1> QED
  BY <1>1, <1>2

(***************************************************************************)
(* Frost                                                                    *)
(***************************************************************************)

\* What the property asks of a step that leaves the coupler c.
Spares(c) ==
  \A v \in cold : c.out[v] # coupler.out[v] => c.out[v] = Open \/ c.wd = "expired"

\* Every write there is leaves the frozen circuits alone, opens one or trips ...
LEMMA WritesSpare ==
  ASSUME coupler \in Coupler, cold \subseteq Valve
  PROVE  /\ Spares(coupler) /\ Spares(Restarted(coupler)) /\ Spares(Tripped(coupler))
         /\ \A x \in {0, 1} : Spares(Toggled(coupler, x))
         /\ \A v \in Valve : Spares(Driven(coupler, v, Position(v)))
         /\ \A v \in Valve : Spares(Driven(coupler, v, Open))
<1>1. Spares(coupler) /\ Spares(Restarted(coupler)) /\ Spares(Tripped(coupler))
  BY CouplerHolds DEF Spares
<1>2. \A x \in {0, 1} : Spares(Toggled(coupler, x))
  BY CouplerHolds DEF Spares
<1>3. \A v \in cold : Position(v) = Open
  BY DEF Position
<1>4. \A v \in Valve : Spares(Driven(coupler, v, Position(v)))
  BY <1>3, CouplerHolds, PositionTyped DEF Spares
<1>5. \A v \in Valve : Spares(Driven(coupler, v, Open))
  BY CouplerHolds DEF Spares
<1> QED
  BY <1>1, <1>2, <1>4, <1>5

\* ... and so it does when its answer is lost and time passes.
LEMMA AgedSpares == \A c \in Coupler : Spares(c) => Spares(Aged(c))
BY CouplerHolds DEF Spares

LEMMA StepSpares ==
  ASSUME TypeOK, Next
  PROVE  Spares(coupler')
<1>1. /\ coupler \in Coupler /\ cold \subseteq Valve /\ todo \subseteq Valve
      /\ pc = "toggle" => candidates \in {<<0>>, <<1>>, <<1, 0>>}
  BY DEF TypeOK
<1>2. ASSUME NEW c \in Coupler, Spares(c), Answered(c) \/ Unanswered(c)
      PROVE  Spares(coupler')
  BY <1>2, AgedSpares DEF Answered, Unanswered
<1>3. Spares(coupler) /\ Spares(Aged(coupler)) /\ Spares(Tripped(coupler))
  BY <1>1, WritesSpare, AgedSpares
<1>4. CASE coupler' \in {coupler, Aged(coupler), Tripped(coupler)}
  BY <1>3, <1>4
<1>5. CASE Start \/ Connects \/ ReadOk \/ TriggerRead \/ StatusRead \/ IsStale \/ IsFresh
           \/ RestOk \/ RestRaises \/ SafeDone \/ PlaneConnects \/ PlaneDrops \/ Sleep \/ Restart
           \/ ReadRefused \/ ReadFailed \/ TriggerUnread \/ StatusUnread \/ ToggleRefused
           \/ WriteRefused \/ \E v \in Valve : HouseChanges(v) \/ SafeRefused(v)
  BY <1>4, <1>5
     DEF Start, Connects, ReadOk, TriggerRead, StatusRead, IsStale, IsFresh, RestOk, RestRaises,
         SafeDone, PlaneConnects, PlaneDrops, Sleep, Restart, ReadRefused, ReadFailed,
         TriggerUnread, StatusUnread, ToggleRefused, WriteRefused, HouseChanges, SafeRefused,
         Answered, Unanswered
<1>6. CASE BacksOff \/ ConnectFails
  BY <1>4, <1>6 DEF BacksOff, ConnectFails
<1>7. CASE ReadNotTried \/ ReadNotConnected \/ WriteNotTried \/ WriteNotConnected
           \/ \E v \in Valve : SafeNotTried(v) \/ SafeNotConnected(v)
  BY <1>6, <1>7 DEF ReadNotTried, ReadNotConnected, WriteNotTried, WriteNotConnected,
                    SafeNotTried, SafeNotConnected
<1>8. CASE ToggleOk \/ ToggleFailed
  <2> DEFINE toggled == Toggled(coupler, Head(candidates))
  <2>1. Head(candidates) \in {0, 1}
    BY <1>1, <1>8, CandidateTyped DEF ToggleOk, ToggleFailed, Tried
  <2>2. toggled \in Coupler /\ Spares(toggled)
    BY <1>1, <2>1, CouplerTyped, WritesSpare
  <2>3. \/ Answered(toggled) \/ Unanswered(toggled) \/ Unanswered(coupler)
    BY <1>8 DEF ToggleOk, ToggleFailed
  <2> HIDE DEF toggled
  <2> QED
    BY <1>1, <1>2, <1>3, <2>2, <2>3
<1>9. CASE ArmOk \/ ArmFailed
  <2>1. Restarted(coupler) \in Coupler /\ Spares(Restarted(coupler))
    BY <1>1, CouplerTyped, WritesSpare
  <2> QED
    BY <1>1, <1>2, <1>3, <1>9, <2>1 DEF ArmOk, ArmFailed
<1>10. CASE WriteFailed \/ \E v \in Valve : WriteOk(v)
  <2>1. \A v \in Valve : /\ Driven(coupler, v, Position(v)) \in Coupler
                         /\ Spares(Driven(coupler, v, Position(v)))
    BY <1>1, CouplerTyped, PositionTyped, WritesSpare
  <2> QED
    BY <1>1, <1>2, <1>3, <1>10, <2>1 DEF WriteFailed, WriteOk
<1>11. CASE \E v \in Valve : SafeOk(v) \/ SafeFailed(v)
  <2>1. \A v \in Valve : /\ Driven(coupler, v, Open) \in Coupler
                         /\ Spares(Driven(coupler, v, Open))
    BY <1>1, CouplerTyped, WritesSpare
  <2> QED
    BY <1>1, <1>2, <1>3, <1>11, <2>1 DEF SafeOk, SafeFailed
<1> QED
  BY <1>5, <1>7, <1>8, <1>9, <1>10, <1>11
     DEF Next, Loop, Cycle, SensorsFail, OtherFault, Environment

(***************************************************************************)
(* Sight                                                                    *)
(***************************************************************************)

\* The cycle writes what control makes of the demands only while the rooms it
\* read are not too old: reads and writes may fail in between, but no time passes
\* from the check to a write that is still tried.
Sees == pc \in {"write", "rest"} => age <= Stale

\* An output is moved to control's position, or shut for an operator, only on
\* sensors that are fresh; without them outputs only open, or fall shut in a trip
\* of the coupler's own (step: "stale_data" before the valve writes).
ControlSees ==
  [][\A v \in Valve : coupler'.out[v] # coupler.out[v]
       => coupler'.out[v] = Open \/ coupler'.wd = "expired" \/ age <= Stale]_vars

LEMMA SeesInit == Init => Sees
BY DEF Init, Sees

LEMMA SeesStep == TypeOK /\ Sees /\ [Next]_vars => Sees'
<1> SUFFICES ASSUME TypeOK, Sees, [Next]_vars PROVE Sees'
  OBVIOUS
<1>1. CASE pc' \notin {"write", "rest"}
  BY <1>1 DEF Sees
<1>2. CASE UNCHANGED <<pc, age>>
  BY <1>2 DEF Sees
<1>3. CASE IsFresh
  <2>1. age' = age /\ ~(age > Stale)
    BY <1>3 DEF IsFresh, TooOld, clocks
  <2>2. age \in Int /\ Stale \in Int
    BY Limits DEF TypeOK
  <2> QED
    BY <2>1, <2>2 DEF Sees
<1>4. CASE \E v \in Valve : WriteOk(v)
  BY <1>4 DEF WriteOk, Answered, clocks, Sees
<1>5. CASE Start \/ Sleep \/ ReadOk \/ ReadRefused \/ ReadFailed \/ ReadNotTried
           \/ ReadNotConnected \/ TriggerRead \/ TriggerUnread \/ StatusRead \/ StatusUnread
           \/ ArmOk \/ ArmFailed \/ IsStale \/ RestOk \/ RestRaises \/ SafeDone \/ Restart
  <2>1. pc' \in {"read", "status", "kick", "check", "toggle", "arm", "failsafe", "wait", "start"}
    BY <1>5 DEF Start, Sleep, ReadOk, ReadRefused, ReadFailed, ReadNotTried, ReadNotConnected,
         TriggerRead, TriggerUnread, StatusRead, StatusUnread, ArmOk, ArmFailed, IsStale, RestOk,
         RestRaises, SafeDone, Restart, Failsafe
  <2> QED
    BY <1>1, <2>1
<1>6. CASE ToggleOk \/ ToggleRefused \/ ToggleFailed
  <2>1. pc' \in {"check", "toggle"}
    BY <1>6 DEF ToggleOk, ToggleRefused, ToggleFailed, Tried
  <2> QED
    BY <1>1, <2>1
<1>7. CASE WriteRefused \/ WriteNotTried \/ WriteNotConnected \/ WriteFailed
  <2>1. pc' = "failsafe"
    BY <1>7 DEF WriteRefused, WriteNotTried, WriteNotConnected, WriteFailed, WriteRaises,
                Failsafe
  <2> QED
    BY <1>1, <2>1
<1>8. CASE \E v \in Valve : \/ SafeOk(v) \/ SafeRefused(v) \/ SafeNotTried(v)
                            \/ SafeNotConnected(v) \/ SafeFailed(v)
  <2>1. pc' = "failsafe"
    BY <1>8 DEF SafeOk, SafeRefused, SafeNotTried, SafeNotConnected, SafeFailed, Handled
  <2> QED
    BY <1>1, <2>1
<1>9. CASE Connects \/ PlaneConnects \/ PlaneDrops \/ \E v \in Valve : HouseChanges(v)
  BY <1>2, <1>9 DEF Connects, PlaneConnects, PlaneDrops, HouseChanges, clocks
<1>10. CASE UNCHANGED vars
  BY <1>2, <1>10 DEF vars, clocks
<1> QED
  BY <1>3, <1>4, <1>5, <1>6, <1>7, <1>8, <1>9, <1>10
     DEF Next, Loop, Cycle, SensorsFail, OtherFault, Environment

\* What a step leaves of the coupler that moves no output except to open it.
OnlyOpens(c) ==
  \A v \in Valve : c.out[v] # coupler.out[v] => c.out[v] = Open \/ c.wd = "expired"

LEMMA WritesOpen ==
  ASSUME coupler \in Coupler
  PROVE  /\ OnlyOpens(coupler) /\ OnlyOpens(Restarted(coupler)) /\ OnlyOpens(Tripped(coupler))
         /\ \A x \in {0, 1} : OnlyOpens(Toggled(coupler, x))
         /\ \A v \in Valve : OnlyOpens(Driven(coupler, v, Open))
BY CouplerHolds DEF OnlyOpens

LEMMA AgedOpens == \A c \in Coupler : OnlyOpens(c) => OnlyOpens(Aged(c))
BY CouplerHolds DEF OnlyOpens

LEMMA StepOpens ==
  ASSUME TypeOK, Next, pc # "write"
  PROVE  OnlyOpens(coupler')
<1>1. /\ coupler \in Coupler /\ todo \subseteq Valve
      /\ pc = "toggle" => candidates \in {<<0>>, <<1>>, <<1, 0>>}
  BY DEF TypeOK
<1>2. ASSUME NEW c \in Coupler, OnlyOpens(c), Answered(c) \/ Unanswered(c)
      PROVE  OnlyOpens(coupler')
  BY <1>2, AgedOpens DEF Answered, Unanswered
<1>3. OnlyOpens(coupler) /\ OnlyOpens(Aged(coupler)) /\ OnlyOpens(Tripped(coupler))
  BY <1>1, WritesOpen, AgedOpens
<1>4. CASE coupler' \in {coupler, Aged(coupler), Tripped(coupler)}
  BY <1>3, <1>4
<1>5. CASE Start \/ Connects \/ ReadOk \/ TriggerRead \/ StatusRead \/ IsStale \/ IsFresh
           \/ RestOk \/ RestRaises \/ SafeDone \/ PlaneConnects \/ PlaneDrops \/ Sleep \/ Restart
           \/ ReadRefused \/ ReadFailed \/ TriggerUnread \/ StatusUnread \/ ToggleRefused
           \/ \E v \in Valve : HouseChanges(v) \/ SafeRefused(v)
  BY <1>4, <1>5
     DEF Start, Connects, ReadOk, TriggerRead, StatusRead, IsStale, IsFresh, RestOk, RestRaises,
         SafeDone, PlaneConnects, PlaneDrops, Sleep, Restart, ReadRefused, ReadFailed,
         TriggerUnread, StatusUnread, ToggleRefused, HouseChanges, SafeRefused,
         Answered, Unanswered
<1>6. CASE BacksOff \/ ConnectFails
  BY <1>4, <1>6 DEF BacksOff, ConnectFails
<1>7. CASE ReadNotTried \/ ReadNotConnected
           \/ \E v \in Valve : SafeNotTried(v) \/ SafeNotConnected(v)
  BY <1>6, <1>7 DEF ReadNotTried, ReadNotConnected, SafeNotTried, SafeNotConnected
<1>8. CASE ToggleOk \/ ToggleFailed
  <2> DEFINE toggled == Toggled(coupler, Head(candidates))
  <2>1. Head(candidates) \in {0, 1}
    BY <1>1, <1>8, CandidateTyped DEF ToggleOk, ToggleFailed, Tried
  <2>2. toggled \in Coupler /\ OnlyOpens(toggled)
    BY <1>1, <2>1, CouplerTyped, WritesOpen
  <2>3. \/ Answered(toggled) \/ Unanswered(toggled) \/ Unanswered(coupler)
    BY <1>8 DEF ToggleOk, ToggleFailed
  <2> HIDE DEF toggled
  <2> QED
    BY <1>1, <1>2, <1>3, <2>2, <2>3
<1>9. CASE ArmOk \/ ArmFailed
  <2>1. Restarted(coupler) \in Coupler /\ OnlyOpens(Restarted(coupler))
    BY <1>1, CouplerTyped, WritesOpen
  <2> QED
    BY <1>1, <1>2, <1>3, <1>9, <2>1 DEF ArmOk, ArmFailed
<1>10. CASE \E v \in Valve : SafeOk(v) \/ SafeFailed(v)
  <2>1. \A v \in Valve : /\ Driven(coupler, v, Open) \in Coupler
                         /\ OnlyOpens(Driven(coupler, v, Open))
    BY <1>1, CouplerTyped, WritesOpen
  <2> QED
    BY <1>1, <1>2, <1>3, <1>10, <2>1 DEF SafeOk, SafeFailed
<1>11. ~(WriteRefused \/ WriteNotTried \/ WriteNotConnected \/ WriteFailed)
       /\ \A v \in Valve : ~WriteOk(v)
  BY DEF WriteRefused, WriteNotTried, WriteNotConnected, WriteFailed, WriteRaises, WriteOk
<1> QED
  BY <1>5, <1>7, <1>8, <1>9, <1>10, <1>11
     DEF Next, Loop, Cycle, SensorsFail, OtherFault, Environment

(***************************************************************************)
(* The theorems                                                             *)
(***************************************************************************)

\* The state of coupler, backend, cycle and plane has the shape the code gives
\* it; in particular the delay of a reconnect stays below its ceiling, and the
\* kick always has a value of the trigger to try (_watchdog_kick_after_error).
THEOREM Typed == Spec => []TypeOK
BY InitTyped, TypeStep, PTL DEF Spec

\* Whatever the operator holds shut, whichever write is lost or refused and
\* whenever the process starts again, no step moves the output of a circuit with
\* frost but to open it or in a trip (Safety.apply, failsafe).
THEOREM Frost == Spec => FrostOpens
<1>1. TypeOK /\ [Next]_vars =>
        [\A v \in cold : coupler'.out[v] # coupler.out[v]
           => coupler'.out[v] = Open \/ coupler'.wd = "expired"]_vars
  BY StepSpares DEF Spares
<1> QED
  BY <1>1, Typed, PTL DEF Spec, FrostOpens

\* A house that is not seen is not controlled: no step moves an output to anything
\* but open on sensors older than stale_data_timeout_s, except the coupler's own
\* trip, whatever fails between the check of their age and the writes.
THEOREM Sight == Spec => ControlSees
<1>1. Spec => [](TypeOK /\ Sees)
  BY Typed, SeesInit, SeesStep, PTL DEF Spec
<1>2. TypeOK /\ Sees /\ [Next]_vars =>
        [\A v \in Valve : coupler'.out[v] # coupler.out[v]
           => coupler'.out[v] = Open \/ coupler'.wd = "expired" \/ age <= Stale]_vars
  <2> SUFFICES ASSUME TypeOK, Sees, Next, NEW v \in Valve, coupler'.out[v] # coupler.out[v],
                      ~(age <= Stale)
               PROVE  coupler'.out[v] = Open \/ coupler'.wd = "expired"
    OBVIOUS
  <2>1. OnlyOpens(coupler')
    BY StepOpens DEF Sees
  <2> QED
    BY <2>1 DEF OnlyOpens
<1> QED
  BY <1>1, <1>2, PTL DEF Spec, ControlSees
=============================================================================
