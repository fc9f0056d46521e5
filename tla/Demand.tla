------------------------------- MODULE Demand -------------------------------
(***************************************************************************)
(* DemandController (heatctl/demand.py): the mode the house asks for, with *)
(* a dead band and a dwell, and the request to have the heat pump powered, *)
(* with a minimum time on and off.  step is PickMode followed by HoldOn.   *)
(*                                                                         *)
(* The deviation of the house is 0 within deviation_band_c, 1 beyond it, 2 *)
(* beyond mode_deadband_c, positive when the house is too cold; the excess *)
(* of the slab is -1, 0 or 1, against mode_deadband_slab_k.                *)
(***************************************************************************)
EXTENDS Ages

CONSTANTS
  Dwell,       \* mode_dwell_s
  MinOn,       \* min_on_s
  MinOff       \* min_off_s

Season == {"heating", "cooling"}
Mode == Season \cup {"off"}

ASSUME DemandAssumption == {Dwell, MinOn, MinOff} \subseteq Nat /\ None \notin Mode

LongestHold == IF MinOn > MinOff THEN MinOn ELSE MinOff

VARIABLES
  mode,        \* Controller.mode, the plant's
  cand,        \* _mode_candidate
  candAge,     \* age of _candidate_since
  decided,     \* _mode_decided
  on,          \* _source_on
  since        \* age of _since, None before the first change

pickVars == <<mode, cand, candAge, decided>>
holdVars == <<on, since>>
demandVars == <<pickVars, holdVars>>

DemandTypeOK ==
  /\ mode \in Mode
  /\ cand \in Season \cup {None} /\ candAge \in Age(Dwell)
  /\ decided \in BOOLEAN /\ on \in BOOLEAN
  /\ since \in Age(LongestHold) \cup {None}

\* A new DemandController; the mode is the configured one.
DemandInit(seed) ==
  /\ mode = seed
  /\ cand = None /\ candAge = 0 /\ decided = FALSE
  /\ on = FALSE /\ since = None

----------------------------------------------------------------------------
\* _mode_wanted: the slab's excess decides, the air only without it.
ModeWanted(dev, excess) ==
  IF excess # None
  THEN IF excess > 0 THEN "cooling" ELSE IF excess < 0 THEN "heating" ELSE None
  ELSE IF dev >= 2 THEN "heating" ELSE IF dev <= -2 THEN "cooling" ELSE None

\* No verdict at all: the mode is the operator's, or the house is not seen.
Abstains(auto, dev) == ~auto \/ dev = None \/ mode = "off"

\* The band, or the mode there is: whatever was under way is forgotten.
BandKeepsCandidate(want, complete) ==   \* mutant
  /\ decided' = (decided \/ complete)
  /\ UNCHANGED <<mode, cand, candAge>>
ContentWithAnything(want, complete) ==   \* mutant: returns what it wants
  /\ cand' = None /\ candAge' = 0
  /\ decided' = (decided \/ complete)
  /\ mode' = want
Content(want, complete) ==
  /\ cand' = None /\ candAge' = 0
  /\ decided' = (decided \/ complete)
  /\ UNCHANGED mode

\* The first decision on a complete set of rooms does not wait.
Decides(want) ==
  /\ mode' = want /\ decided' = TRUE
  /\ cand' = None /\ candAge' = 0

\* A candidate starts its dwell, waits for it, and becomes the mode.
AlwaysNew(want) == TRUE   \* mutant: the clock is started in every cycle
IsNew(want) == cand # want

Considers(want) ==
  \/ /\ IsNew(want)
     /\ cand' = want /\ candAge' = 0
     /\ UNCHANGED <<mode, decided>>
  \/ /\ ~IsNew(want) /\ candAge < Dwell
     /\ UNCHANGED pickVars
  \/ /\ ~IsNew(want) /\ candAge >= Dwell
     /\ mode' = want /\ cand' = None /\ candAge' = 0
     /\ UNCHANGED decided

\* _pick_mode
PickMode(auto, dev, complete, excess) ==
  \/ Abstains(auto, dev) /\ UNCHANGED pickVars
  \/ /\ ~Abstains(auto, dev)
     /\ LET want == ModeWanted(dev, excess)
        IN  \/ want \in {None, mode} /\ Content(want, complete)
            \/ want \notin {None, mode} /\ ~decided /\ complete /\ Decides(want)
            \/ want \notin {None, mode} /\ (decided \/ ~complete) /\ Considers(want)

\* _want_source and the end of step: only the operator's off switches the
\* source off, and no change undoes another too soon.
IsHeld == since # None /\ since < (IF on THEN MinOn ELSE MinOff)

HoldOnRestarts(want) ==   \* mutant: being held starts the clock again
  IF want = on THEN UNCHANGED holdVars
  ELSE since' = 0 /\ on' = (IF IsHeld THEN on ELSE want)
HoldOn(want) ==
  IF want = on \/ IsHeld THEN UNCHANGED holdVars
  ELSE on' = want /\ since' = 0
=============================================================================
