------------------------------- MODULE WorkPool -------------------------------
(***************************************************************************)
(* What a work queue promises, with no threads to manage: items are        *)
(* submitted, start in the order of their submission, at most Parallelism  *)
(* of them at a time, each on a worker of its own, and finish.             *)
(***************************************************************************)
EXTENDS Naturals, Sequences, FiniteSets

CONSTANTS Items, Servers, Parallelism

VARIABLES
  pending,   \* the sequence of submitted items that have not started
  running,   \* the pairs <<worker, item>> under way
  done       \* how often each item has been finished

vars == <<pending, running, done>>

Init == pending = <<>> /\ running = {} /\ done = [i \in Items |-> 0]

Submit(i) ==
  /\ pending' = Append(pending, i)
  /\ UNCHANGED <<running, done>>

Start(w) ==
  /\ pending # <<>>
  /\ Cardinality(running) < Parallelism
  /\ \A p \in running : p[1] # w
  /\ running' = running \cup {<<w, Head(pending)>>}
  /\ pending' = Tail(pending)
  /\ UNCHANGED done

Finish(p) ==
  /\ running' = running \ {p}
  /\ done' = [done EXCEPT ![p[2]] = @ + 1]
  /\ UNCHANGED pending

Next ==
  \/ \E i \in Items : Submit(i)
  \/ \E w \in Servers : Start(w)
  \/ \E p \in running : Finish(p)

Spec == Init /\ [][Next]_vars
=============================================================================
