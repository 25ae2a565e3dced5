-------------------------------- MODULE MCPipe --------------------------------
(* Instances of the pipeline for TLC. *)
EXTENDS Pipe

CONSTANTS c1, c2

TwoCallers == {c1, c2}
=============================================================================
