--------------------------------- MODULE Fifo ---------------------------------
(***************************************************************************)
(* What a pipeline promises: it holds Capacity values at most, and what    *)
(* goes in comes out in the same order, Steps greater.                     *)
(***************************************************************************)
EXTENDS Integers, Sequences

CONSTANTS Capacity, Steps, Values

VARIABLES contents, results

Init == contents = <<>> /\ results = <<>>

Put ==
  /\ Len(contents) < Capacity
  /\ \E v \in Values : contents' = Append(contents, v)
  /\ UNCHANGED results

Get ==
  /\ contents # <<>>
  /\ results' = Append(results, Head(contents) + Steps)
  /\ contents' = Tail(contents)

Spec == Init /\ [][Put \/ Get]_<<contents, results>>
=============================================================================
