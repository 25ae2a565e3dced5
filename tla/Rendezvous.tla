------------------------------ MODULE Rendezvous ------------------------------
(***************************************************************************)
(* What a barrier for all of Threads promises, with no mutex, no condition *)
(* variable and no counter: threads gather, the arrival of the last one    *)
(* releases everybody at once, and a thread goes on only when released.    *)
(***************************************************************************)
EXTENDS Naturals

CONSTANT Threads

VARIABLES
  waiting,    \* threads gathered for the current round
  released,   \* threads of the previous round that have not gone on yet
  rounds      \* completed rounds

vars == <<waiting, released, rounds>>

Init == waiting = {} /\ released = {} /\ rounds = 0

Gather(t) ==
  /\ t \notin waiting \cup released
  /\ waiting \cup {t} # Threads
  /\ waiting' = waiting \cup {t}
  /\ UNCHANGED <<released, rounds>>

Release(t) ==
  /\ t \notin waiting
  /\ waiting \cup {t} = Threads
  /\ waiting' = {}
  /\ released' = waiting
  /\ rounds' = rounds + 1

GoOn(t) ==
  /\ t \in released
  /\ released' = released \ {t}
  /\ UNCHANGED <<waiting, rounds>>

Next == \E t \in Threads : Gather(t) \/ Release(t) \/ GoOn(t)

Spec == Init /\ [][Next]_vars
=============================================================================
