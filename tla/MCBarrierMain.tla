---------------------------- MODULE MCBarrierMain ----------------------------
(* Instances of barrier_main.c for TLC: the threads are numbered from 0.    *)
EXTENDS BarrierMain

CONSTANT Parties

ThreadNumbers == 0 .. (Parties - 1)
Rounds2 == 2 * OUTLOOPS

ASSUME MCProgramShape == ProgramShape
=============================================================================
