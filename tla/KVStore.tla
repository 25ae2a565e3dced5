-------------------------------- MODULE KVStore --------------------------------
(***************************************************************************)
(* What a database of records promises to the processes that share it: a   *)
(* call takes effect at one instant between its start and its return.      *)
(***************************************************************************)
EXTENDS Integers

CONSTANTS Procs, Keys, None, Pending, Requests

VARIABLES
  map,       \* the data of every key, or None
  request,   \* the call each process has made last
  reply      \* what it returned: Pending until then

vars == <<map, request, reply>>

Init ==
  /\ map = [k \in Keys |-> None]
  /\ request \in [Procs -> Requests]
  /\ reply = [p \in Procs |-> None]

Invoke(p) ==
  /\ reply[p] # Pending
  /\ \E r \in Requests, a \in {Pending, None} :
       request' = [request EXCEPT ![p] = r] /\ reply' = [reply EXCEPT ![p] = a]
  /\ UNCHANGED map

Answer(p, ops, a) ==
  /\ reply[p] = Pending /\ request[p].op \in ops
  /\ reply' = [reply EXCEPT ![p] = a]
  /\ UNCHANGED request

Fetch(p) ==
  /\ Answer(p, {"fetch"}, map[request[p].key])
  /\ UNCHANGED map

Delete(p) ==
  LET k == request[p].key
  IN  /\ Answer(p, {"delete"}, IF map[k] = None THEN -1 ELSE 0)
      /\ map' = [map EXCEPT ![k] = None]

Store(p) ==
  LET k == request[p].key
      put == map' = [map EXCEPT ![k] = request[p].data]
  IN  \/ Answer(p, {"insert", "store"}, 0) /\ map[k] = None /\ put
      \/ Answer(p, {"replace", "store"}, 0) /\ map[k] # None /\ put
      \/ Answer(p, {"replace"}, -1) /\ map[k] = None /\ UNCHANGED map
      \/ Answer(p, {"insert"}, 1) /\ map[k] # None /\ UNCHANGED map

Next == \E p \in Procs : Invoke(p) \/ Fetch(p) \/ Delete(p) \/ Store(p)

Spec == Init /\ [][Next]_vars
=============================================================================
