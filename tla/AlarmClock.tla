------------------------------ MODULE AlarmClock ------------------------------
(***************************************************************************)
(* What an alarm server promises: an alarm that was set goes off once, and *)
(* not before its time.                                                    *)
(***************************************************************************)
EXTENDS Integers

CONSTANTS Alarms

VARIABLES now, pending, time, fired

vars == <<now, pending, time, fired>>

Init == now \in Nat /\ pending = {} /\ fired = {} /\ time \in [Alarms -> Int]

Tick == now' = now + 1 /\ UNCHANGED <<pending, time, fired>>

Set(a) ==
  /\ a \notin pending \cup fired
  /\ pending' = pending \cup {a}
  /\ time' = [time EXCEPT ![a] = time'[a]]
  /\ UNCHANGED <<now, fired>>

Fire(a) ==
  /\ a \in pending /\ time[a] <= now
  /\ pending' = pending \ {a} /\ fired' = fired \cup {a}
  /\ UNCHANGED <<now, time>>

Next == Tick \/ \E a \in Alarms : Set(a) \/ Fire(a)

Spec == Init /\ [][Next]_vars
=============================================================================
