-------------------------------- MODULE MCCrew --------------------------------
(* Instances of the work crew for TLC: small trees. *)
EXTENDS Crew

CONSTANTS w1, w2, c1, c2, c3, root, sub, leaf1, leaf2

TwoWorkers == {w1, w2}
ThreeCallers == {c1, c2, c3}

(* root holds sub and leaf1, sub holds leaf2. *)
AllPaths == {root, sub, leaf1, leaf2}
TwoDirs == {root, sub}
Tree == [d \in TwoDirs |-> IF d = root THEN {sub, leaf1} ELSE {leaf2}]
=============================================================================
