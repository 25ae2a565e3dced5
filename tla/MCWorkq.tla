------------------------------- MODULE MCWorkq -------------------------------
(* Instances of the work queue package for TLC. *)
EXTENDS Workq

CONSTANTS c1, c2, s1, s2

TwoClients == {c1, c2}
TwoServers == {s1, s2}
=============================================================================
