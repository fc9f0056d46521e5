----------------------------- MODULE MC_Source -----------------------------
(* Parts of one control cycle, explored side by side since they share nothing *)
(* that matters to their properties: the source, the shares of the valves,   *)
(* and the setpoint of a resume.                                              *)
(*                                                                         *)
(* The source has two installations: one picks the season and powers the     *)
(* unit, its setpoint left alone; the other has its mode commanded and trims *)
(* the setpoint.  Only heating may ask for 3.                                 *)
EXTENDS Source, FlowFloor, Resume

CONSTANTS v1, v2, v3, v4

MCLow == [heating |-> 1, cooling |-> 1]
MCHigh == [heating |-> 3, cooling |-> 2]

Picks == [auto |-> TRUE, powers |-> TRUE, trims |-> FALSE, seed |-> "heating",
          ordered |-> Mode, balances |-> {-1, 0, 1}, wishes |-> {}]
Trims == [auto |-> FALSE, powers |-> FALSE, trims |-> TRUE, seed |-> "heating",
          ordered |-> Season, balances |-> {0}, wishes |-> {2, 7}]
MCInstall == {Picks, Trims}

\* No room is seen, the house is far too warm, about right, far too cold.
MCDeviation == {None, -2, 0, 2}

\* Openings in units of 1/2520, which every sum of shares divides.
Unit == 2520
MCFull == 4 * Unit
MCThreshold == Unit
MCMinOpen == (13 * Unit) \div 4
MCLevel == {0, 2 * Unit, 4 * Unit}
MCNeed == {-3, -1, 1, None}

----------------------------------------------------------------------------
VARIABLE part   \* which of them this behaviour is about
mcVars == <<part, vars, floorVars, resumeVars>>

PartsTypeOK == FloorTypeOK /\ ResumeTypeOK

MCInit ==
  /\ part \in {"source", "valves", "resume"}
  /\ Init /\ FloorInit /\ ResumeInit
  /\ part # "source" => install = Trims
MCNext ==
  /\ UNCHANGED part
  /\ \/ part = "source" /\ Next /\ UNCHANGED <<floorVars, resumeVars>>
     \/ part = "valves" /\ FloorNext /\ UNCHANGED <<vars, resumeVars>>
     \/ part = "resume" /\ ResumeNext /\ UNCHANGED <<vars, floorVars>>
MCSpec ==
  /\ MCInit /\ [][MCNext]_mcVars
  /\ WF_vars(part = "source" /\ Loop) /\ WF_vars(part = "source" /\ FirstRead)
=============================================================================
