-------------------------------- MODULE MCAlarm --------------------------------
(* Instances of the alarm server for TLC. *)
EXTENDS Alarm

CONSTANTS a1, a2, a3

ThreeAlarms == {a1, a2, a3}
Delays == {-1, 1, 2, 3}
=============================================================================
