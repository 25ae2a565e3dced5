--------------------------------- MODULE MCDb ---------------------------------
(* Instances of the database library for TLC: a and b share a chain, a and *)
(* c have the same length; x and y have the same length.                   *)
EXTENDS Db

CONSTANTS p1, p2, a, b, c, x, y, z

TwoProcs == {p1, p2}
AllKeys == {a, b, c}
AllData == {x, y, z}
KeyLens == [k \in AllKeys |-> IF k = b THEN 2 ELSE 1]
DatLens == [d \in AllData |-> IF d = z THEN 2 ELSE 1]
Hashes == [k \in AllKeys |-> IF k = c THEN 2 ELSE 1]
CallBounds == [p \in TwoProcs |-> IF p = p1 THEN 3 ELSE 2]

Delete(k) == [op |-> "delete", key |-> k]
Put_(op, k, d) == [op |-> op, key |-> k, data |-> d]

AllCalls ==
  {[op |-> "fetch", key |-> a], [op |-> "nextrec"], NoCall,
   Delete(a), Put_("insert", a, x), Put_("replace", a, z),
   Put_("store", a, y), Put_("store", b, x), Put_("store", c, x)}
=============================================================================
