---------------------------- MODULE MC_HeatPump ----------------------------
(* Small instances of HeatPump.  p04 (0x0090) is written whole and is only  *)
(* read by a read of the whole space, in its second chunk; flags is a        *)
(* register of the control block, in the first, with one or two named bits   *)
(* and, when f is a bit, one that heatctl has no name for.                   *)
EXTENDS HeatPump

CONSTANTS p04, flags, b1, b2, f, t1, t2

MCChunkOf == [r \in Reg |-> IF r = flags THEN 1 ELSE 2]
MCCtrlBlock == Reg \cap {flags}

Whole(v) == [reg |-> p04, whole |-> TRUE, on |-> v, off |-> {}]
On(b) == [reg |-> flags, whole |-> FALSE, on |-> {b}, off |-> {}]
Off(b) == [reg |-> flags, whole |-> FALSE, on |-> {}, off |-> {b}]

\* The commands for the registers and the bits of the instance.
MCOps ==
  {op \in {Whole({}), Whole({b1})}
             \cup {On(b) : b \in Bit \ {f}} \cup {Off(b) : b \in Bit \ {f}}
     : op.reg \in Reg}

----------------------------------------------------------------------------
(* One register at a time is commanded and changed at the panel; the others *)
(* rest, are read with it, and are written never.  Commands for different    *)
(* registers share only the lock and the budget, which tasks share anyway.    *)
VARIABLE about

MCInit ==
  /\ Init /\ disputed = [r \in Reg |-> {}]
  /\ about \in Reg /\ \A r \in Reg \ {about} : dev[r] = {}
MCNext ==
  /\ Next /\ Track /\ UNCHANGED about
  /\ \A r \in Reg \ {about} : dev'[r] = dev[r]
  /\ \A t \in Task : pc'[t] # "idle" => want'[t].reg = about
MCSpec == MCInit /\ [][MCNext]_<<about, disputed, vars>> /\ Fairness
=============================================================================
