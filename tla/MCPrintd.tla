------------------------------- MODULE MCPrintd -------------------------------
(* Instances of the print spooler for TLC. *)
EXTENDS Printd

CONSTANTS c1, c2, c3

TwoClients == {c1, c2}
ThreeClients == {c1, c2, c3}
=============================================================================
