------------------------------- MODULE MCRwlock -------------------------------
(* Instances of the read-write lock package for TLC. *)
EXTENDS Rwlock

CONSTANTS t1, t2, t3

ThreeThreads == {t1, t2, t3}

OneTwice == [t \in Threads |-> IF t = t1 THEN 2 ELSE 1]
=============================================================================
