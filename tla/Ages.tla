-------------------------------- MODULE Ages --------------------------------
(* Times as the code keeps them, a stamp of the monotonic clock or None, are *)
(* modelled by their age in control cycles, which stops at a cap beyond      *)
(* which the code draws no distinction.                                      *)
EXTENDS Integers

CONSTANT None
ASSUME NoneAssumption == None \notin Int

Age(cap) == 0..cap
Older(age, cap) == IF age = None \/ age = cap THEN age ELSE age + 1
=============================================================================
