----------------------------- MODULE MCWorkqMain -----------------------------
(* Instances of workq_main.c for TLC. *)
EXTENDS WorkqMain

CONSTANTS c1, c2, s1, s2

TwoClients == {c1, c2}
TwoServers == {s1, s2}

ASSUME MCProgramShape == ProgramShape
=============================================================================
