------------------------------- MODULE Resume -------------------------------
(***************************************************************************)
(* The setpoint with which a stopped compressor is resumed                 *)
(* (_trim_capacity in heatctl/main.py).  The unit starts only when its     *)
(* return water is warmer than the setpoint by the restart differential,   *)
(* the register takes whole degrees, and the setpoint kept for the next    *)
(* resume is the one this resume left.                                     *)
(*                                                                         *)
(* When the loop stops and resumes is the subject of CompressorGuard.      *)
(* Water is in tenths of a degree, setpoints in whole ones.                *)
(***************************************************************************)
EXTENDS Integers

CONSTANTS
  SpMin, SpMax,       \* safety.setpoint_min_c, setpoint_max_c
  DefaultSp,          \* default_cooling_sp
  Differential,       \* restart_diff_c, whole kelvins
  Coldest, Warmest    \* bound: the return water

ASSUME ResumeAssumption ==
  /\ SpMin \in Nat /\ SpMax \in Nat /\ DefaultSp \in SpMin..SpMax
  /\ Differential \subseteq Nat /\ Differential # {}
  /\ Coldest \in Nat /\ Warmest \in Nat /\ Coldest <= Warmest

VARIABLES
  resting,       \* cooling_is_off
  sp,            \* the cooling setpoint, the last one while resting
  keep,          \* _sp_before_off or the default
  return,        \* return_water
  differential   \* the register of the restart differential

resumeVars == <<resting, sp, keep, return, differential>>

ResumeTypeOK ==
  /\ resting \in BOOLEAN
  /\ sp \in SpMin..SpMax /\ keep \in SpMin..SpMax
  /\ return \in Coldest..Warmest /\ differential \in Differential

\* A process that has found the unit stopped.
ResumeInit ==
  /\ resting = TRUE /\ sp = DefaultSp /\ keep = DefaultSp
  /\ return = Coldest /\ differential = (CHOOSE d \in Differential : TRUE)

----------------------------------------------------------------------------
\* Python's round of tenths to whole degrees: the even one of two.
RoundTenths(t) ==
  LET q == t \div 10
      r == t % 10
  IN  IF r > 5 \/ (r = 5 /\ q % 2 = 1) THEN q + 1 ELSE q

\* Half a kelvin past the edge of the dead zone.
NeededAtTheEdge == return - 10 * differential   \* mutant
Needed == return - 10 * differential - 5

\* clamp_setpoint
NotClamped(t) == t   \* mutant
ClampedSp(t) ==
  IF t < 10 * SpMin THEN 10 * SpMin ELSE IF t > 10 * SpMax THEN 10 * SpMax ELSE t

\* What there was before the stop, or less, within the bounds.
ResumeAt ==
  RoundTenths(ClampedSp(IF Needed < 10 * keep THEN Needed ELSE 10 * keep))

Resumes ==
  /\ resting /\ resting' = FALSE
  /\ sp' = ResumeAt
  /\ UNCHANGED <<keep, return, differential>>

\* The loop stops, and keeps the setpoint there is.
Stops ==
  /\ ~resting /\ resting' = TRUE
  /\ keep' = sp
  /\ UNCHANGED <<sp, return, differential>>

\* A command or the trim sets a running unit.
Sets(v) ==
  /\ ~resting /\ v # sp /\ sp' = v
  /\ UNCHANGED <<resting, keep, return, differential>>

\* The house warms the water and the unit cools it; a service menu.
WaterMoves ==
  /\ return' \in {return - 1, return + 1} \cap (Coldest..Warmest)
  /\ UNCHANGED <<resting, sp, keep, differential>>
Serviced(d) ==
  /\ d # differential /\ differential' = d
  /\ UNCHANGED <<resting, sp, keep, return>>

ResumeNext ==
  \/ Resumes \/ Stops \/ WaterMoves
  \/ \E v \in SpMin..SpMax : Sets(v)
  \/ \E d \in Differential : Serviced(d)

----------------------------------------------------------------------------
\* "A resume into the restart dead zone is a silent no-op": with any water for
\* which the bounds allow it, the setpoint that is left after clamping and
\* rounding is past the edge, and never above the one that was kept.  It is on
\* the edge in one case, and never short of it: whole degrees of water need half
\* a degree, and the half goes up to an even setpoint.
ResumeStarts ==
  [][resting /\ ~resting' /\ return >= 10 * (SpMin + differential) + 5
       => /\ \/ return - 10 * sp' > 10 * differential
             \/ return - 10 * sp' = 10 * differential /\ return % 10 = 0 /\ sp' % 2 = 0
          /\ sp' <= keep]_resumeVars

(* What a comment and a test say, and the code does not keep *)

\* "0.5 K past the edge, not on it".
StartsPastTheEdge ==
  [][resting /\ ~resting' /\ return >= 10 * (SpMin + differential) + 5
       => return - 10 * sp' > 10 * differential]_resumeVars
=============================================================================
